---- MODULE Spec2Model ----
(***************************************************************************)
(* A model of the style cascade and list-numbering resolver of             *)
(* es-spec-html (src/docx.py).                                             *)
(*                                                                         *)
(* Python objects are modelled with their identity: every dict lives at an *)
(* address of the heap, and a field holding a dict holds its address, so   *)
(* that two fields naming the same dict (s.full_style = s.style) are       *)
(* aliases in the model as they are in the program.                        *)
(***************************************************************************)
EXTENDS Integers, Sequences, FiniteSets, TLC

VARIABLES
    all_styles,   \* parse_styles: style id -> Style object (its fields)
    heap,         \* address -> dict contents
    stack,        \* the frames of populate_full_style, outermost first
    iter,         \* position of "for s in all_styles.values()"
    outcome,      \* how parse_styles ended: running, returned, or the exception
    lvl,          \* the Lvl object parse_lvl returned, or None
    lvl_elem,     \* the <w:lvl> element parse_lvl was given, or None
    lvl_outcome,  \* how parse_lvl ended: idle, returned, or the exception
    num_elems,    \* numbering.xml: the <w:num> elements, by numId
    abstract_num, \* Numbering.abstract_num: abstractNumId -> levels or link
    num,          \* Numbering.num as far as parse_numbering has built it
    num_outcome,  \* how parse_numbering ended: running, returned, exception
    query,        \* the arguments of the get_list_style_at call under way
    lstack,       \* the frames of get_list_style_at: their numId arguments
    lresult,      \* what that call returned or raised
    fmt_parent,   \* rewrite_spans: the <p> element it was called on
    items,        \* rewrite_spans: the (content, run_style) pairs
    paragraph_style, \* rewrite_spans: the style the paragraph already has
    all_content,  \* rewrite_spans: the content gathered so far
    ranges,       \* rewrite_spans: (start, stop) -> the style of that range
    current_style, \* rewrite_spans: prop -> (start, val) of the open ranges
    fmt_pc,       \* rewrite_spans: idle, start, the index of the next item, done
    fmt_result,   \* what build_result(ranges, 0, len(all_content)) returned
    gross_cases,  \* how often build_result took its "gross case" branch
    doc,          \* fixup_add_numbering: the document it was called on
    numbering_context, \* abstract_num_id -> current_number
    seen_numids,  \* the numids of the paragraphs add_numbering has handled
    numbered,     \* the paragraphs add_numbering has handled, in time order
    cnt_pc,       \* fixup_add_numbering: idle, or the number of calls made
    body,         \* fixup_lists.fix_body: the paragraphs of the loop so far
    lst_result,   \* fixup_lists.fix_body: result
    current,      \* the List frames from the body to current, outermost first
    lst_outcome,  \* fixup_lists.fix_body: idle, running, returned, exception
    warnings,     \* the number of calls of warn()
    style_elt,    \* parse_style: the <w:style> element it was called on
    s_style,      \* parse_style: s.style as far as it has been filled
    pr_pc,        \* parse_style: idle, pPr, rPr, returned, or the exception
    fr_heap,      \* find_replace: address -> Element (name, content list)
    fr_matcher,   \* find_replace: what matcher answers for every Element
    fr_replacement, \* find_replace: which replacement function was passed
    fr_result,    \* find_replace: the Element returned, or None
    fr_outcome    \* find_replace: idle, called, returned, or the exception

styleVars == <<all_styles, heap, stack, iter, outcome>>
lvlVars == <<lvl, lvl_elem, lvl_outcome>>
numVars == <<num_elems, abstract_num, num, num_outcome, query, lstack, lresult>>

fmtVars == <<fmt_parent, items, paragraph_style, all_content, ranges,
             current_style, fmt_pc, fmt_result, gross_cases>>
cntVars == <<doc, numbering_context, seen_numids, numbered, cnt_pc>>
listVars == <<body, lst_result, current, lst_outcome>>
prVars == <<style_elt, s_style, pr_pc>>
frVars == <<fr_heap, fr_matcher, fr_replacement, fr_result, fr_outcome>>
elemVars == <<prVars, frVars>>
fixupVars == <<fmtVars, cntVars, listVars, warnings, elemVars>>

vars == <<styleVars, lvlVars, numVars, fixupVars>>

\* None where a style id is expected, and where a dict is expected
None == -1
NoDict == <<"None", 0>>
NoLvl == << >>

----------------------------------------------------------------------------
(* Bounds of the model *)

\* number of <w:style> elements in styles.xml
NumStyles == 2

\* depth at which the interpreter stops a recursion (RecursionError)
RecursionLimit == 4

----------------------------------------------------------------------------
(* Inputs *)

StyleIds == 1..NumStyles

\* a basedOn value naming no style of the document
Missing == 0

\* CSS property names parse_pr can produce, and two values for each
Keys == {"font-weight", "text-indent"}
Vals == {"v1", "v2"}

\* the value of the w:type attribute
Types == {"paragraph"}

\* python dicts from property name to value
Dicts == UNION {[D -> Vals] : D \in SUBSET Keys}

EmptyDict == [k \in {} |-> "v1"]

----------------------------------------------------------------------------
(* dict operations *)

\* the reference is shared instead of copied
DictAlias(src, fresh) == src

\* d.copy(), for the dict at address src: the address of the result, a new
\* dict (at address fresh) that starts with the items of d
DictCopy(src, fresh) == fresh

\* the heap once the reference ref has been made by DictCopy(src, fresh)
Copied(h, src, ref) == [h EXCEPT ![ref] = h[src]]

\* an update that keeps the value of a key d already has
DictSetDefault(d, other) ==
    [k \in DOMAIN d \cup DOMAIN other |->
        IF k \in DOMAIN d THEN d[k] ELSE other[k]]

\* d.update(other): the items of other are put into d, replacing the value
\* of a key d already has
DictUpdate(d, other) ==
    [k \in DOMAIN d \cup DOMAIN other |->
        IF k \in DOMAIN other THEN other[k] ELSE d[k]]

----------------------------------------------------------------------------
(* Addresses of the heap *)

\* the dict made by Style.__init__ for self.style
StyleAddr(s) == <<"style", s>>

\* the dict made by parent.full_style.copy() in populate_full_style
FullAddr(s) == <<"full", s>>

\* the dict that becomes lvl.full_style in parse_lvl
LvlAddr == <<"lvl", 0>>

Addrs == {StyleAddr(s) : s \in StyleIds} \cup {FullAddr(s) : s \in StyleIds}
            \cup {LvlAddr}

----------------------------------------------------------------------------
(* parse_style and the first loop of parse_styles: the Style objects *)

\* no level is being parsed
LvlIdle ==
    /\ lvl = NoLvl
    /\ lvl_elem = NoLvl
    /\ lvl_outcome = "idle"

\* rewrite_spans is not running
FmtIdle ==
    /\ fmt_parent = << >>
    /\ items = << >>
    /\ paragraph_style = << >>
    /\ all_content = << >>
    /\ ranges = << >>
    /\ current_style = << >>
    /\ fmt_pc = "idle"
    /\ fmt_result = << >>
    /\ gross_cases = 0

\* fixup_add_numbering is not running
CntIdle ==
    /\ doc = << >>
    /\ numbering_context = << >>
    /\ seen_numids = {}
    /\ numbered = << >>
    /\ cnt_pc = "idle"

\* fixup_lists is not running
ListIdle ==
    /\ body = << >>
    /\ lst_result = << >>
    /\ current = << >>
    /\ lst_outcome = "idle"

\* parse_style is not running
PrIdle ==
    /\ style_elt = << >>
    /\ s_style = << >>
    /\ pr_pc = "idle"

\* find_replace is not running
FrIdle ==
    /\ fr_heap = << >>
    /\ fr_matcher = << >>
    /\ fr_replacement = ""
    /\ fr_result = 0
    /\ fr_outcome = "idle"

\* neither is running
ElemIdle == PrIdle /\ FrIdle

\* no fixup is running
FixupIdle ==
    /\ FmtIdle
    /\ CntIdle
    /\ ListIdle
    /\ warnings = 0
    /\ ElemIdle

\* no numbering.xml is being read
NumIdle ==
    /\ num_elems = << >>
    /\ abstract_num = << >>
    /\ num = << >>
    /\ num_outcome = "idle"
    /\ query = << >>
    /\ lstack = << >>
    /\ lresult = << >>

\* Style.__init__ followed by the two s.style.update(parse_pr(...)) calls
Style(id, basedOn, type) ==
    [id |-> id, basedOn |-> basedOn, style |-> StyleAddr(id),
     full_style |-> NoDict, type |-> type]

\* The state when the first loop of parse_styles has filled all_styles and
\* no style is resolved yet.
InitStyles ==
    /\ \E b \in [StyleIds -> StyleIds \cup {None, Missing}] :
       \E t \in [StyleIds -> Types] :
         all_styles = [s \in StyleIds |-> Style(s, b[s], t[s])]
    /\ \E own \in [StyleIds -> Dicts] :
         heap = [a \in Addrs |->
                   IF a[1] = "style" THEN own[a[2]] ELSE EmptyDict]
    /\ stack = << >>
    /\ iter = 1
    /\ outcome = "running"
    /\ LvlIdle
    /\ FixupIdle
    /\ NumIdle

----------------------------------------------------------------------------
(* populate_full_style *)

Frame(s, pc) == [s |-> s, pc |-> pc]

Top == stack[Len(stack)]

Pop == SubSeq(stack, 1, Len(stack) - 1)

\* all_styles[s.basedOn]: the style, or a KeyError
HasStyle(id) == id \in DOMAIN all_styles

\* "for s in all_styles.values(): populate_full_style(s)": the call
ForCall ==
    /\ outcome = "running"
    /\ stack = << >>
    /\ iter <= NumStyles
    /\ stack' = <<Frame(iter, "start")>>
    /\ UNCHANGED <<all_styles, heap, iter, outcome, lvlVars, numVars, fixupVars>>

\* "return all_styles" once the loop is over
Return ==
    /\ outcome = "running"
    /\ stack = << >>
    /\ iter > NumStyles
    /\ outcome' = "returned"
    /\ UNCHANGED <<all_styles, heap, stack, iter, lvlVars, numVars, fixupVars>>

\* a frame returns to its caller: the for loop, or the frame below
ReturnFrom ==
    /\ stack' = Pop
    /\ iter' = IF Len(stack) = 1 THEN iter + 1 ELSE iter

\* "if s.full_style is None" is false: nothing to do
AlreadyResolved ==
    /\ outcome = "running"
    /\ stack # << >>
    /\ Top.pc = "start"
    /\ all_styles[Top.s].full_style # NoDict
    /\ ReturnFrom
    /\ UNCHANGED <<all_styles, heap, outcome, lvlVars, numVars, fixupVars>>

\* "if s.basedOn is None: s.full_style = s.style"
ResolveRoot ==
    /\ outcome = "running"
    /\ stack # << >>
    /\ Top.pc = "start"
    /\ all_styles[Top.s].full_style = NoDict
    /\ all_styles[Top.s].basedOn = None
    /\ all_styles' = [all_styles EXCEPT ![Top.s].full_style = all_styles[Top.s].style]
    /\ ReturnFrom
    /\ UNCHANGED <<heap, outcome, lvlVars, numVars, fixupVars>>

\* a lookup that takes a style with an unknown parent for one with none
LookupSkips ==
    /\ outcome = "running"
    /\ stack # << >>
    /\ Top.pc = "start"
    /\ all_styles[Top.s].full_style = NoDict
    /\ all_styles[Top.s].basedOn # None
    /\ ~HasStyle(all_styles[Top.s].basedOn)
    /\ all_styles' = [all_styles EXCEPT ![Top.s].full_style = all_styles[Top.s].style]
    /\ ReturnFrom
    /\ UNCHANGED <<heap, outcome, lvlVars, numVars, fixupVars>>

\* "parent = all_styles[s.basedOn]" raises KeyError
LookupFails ==
    /\ outcome = "running"
    /\ stack # << >>
    /\ Top.pc = "start"
    /\ all_styles[Top.s].full_style = NoDict
    /\ all_styles[Top.s].basedOn # None
    /\ ~HasStyle(all_styles[Top.s].basedOn)
    /\ outcome' = "KeyError"
    /\ UNCHANGED <<all_styles, heap, stack, iter, lvlVars, numVars, fixupVars>>

\* "populate_full_style(parent)": the recursive call
Recurse ==
    /\ outcome = "running"
    /\ stack # << >>
    /\ Top.pc = "start"
    /\ all_styles[Top.s].full_style = NoDict
    /\ all_styles[Top.s].basedOn # None
    /\ HasStyle(all_styles[Top.s].basedOn)
    /\ Len(stack) < RecursionLimit
    /\ stack' = Append([stack EXCEPT ![Len(stack)].pc = "called"],
                       Frame(all_styles[Top.s].basedOn, "start"))
    /\ UNCHANGED <<all_styles, heap, iter, outcome, lvlVars, numVars, fixupVars>>

\* the same call when the interpreter's stack is full
RecursionOverflow ==
    /\ outcome = "running"
    /\ stack # << >>
    /\ Top.pc = "start"
    /\ all_styles[Top.s].full_style = NoDict
    /\ all_styles[Top.s].basedOn # None
    /\ HasStyle(all_styles[Top.s].basedOn)
    /\ Len(stack) >= RecursionLimit
    /\ outcome' = "RecursionError"
    /\ UNCHANGED <<all_styles, heap, stack, iter, lvlVars, numVars, fixupVars>>

\* "s.full_style = parent.full_style.copy(); s.full_style.update(s.style)"
Inherit ==
    /\ outcome = "running"
    /\ stack # << >>
    /\ Top.pc = "called"
    /\ LET s == Top.s
           parent == all_styles[all_styles[s].basedOn]
           full == DictCopy(parent.full_style, FullAddr(s))
           h1 == Copied(heap, parent.full_style, full)
       IN /\ heap' = [h1 EXCEPT ![full] =
                        DictUpdate(h1[full], h1[all_styles[s].style])]
          /\ all_styles' = [all_styles EXCEPT ![s].full_style = full]
    /\ ReturnFrom
    /\ UNCHANGED <<outcome, lvlVars, numVars, fixupVars>>

populate_full_style ==
    \/ AlreadyResolved
    \/ ResolveRoot
    \/ LookupFails
    \/ Recurse
    \/ RecursionOverflow
    \/ Inherit

parse_styles == ForCall \/ populate_full_style \/ Return

----------------------------------------------------------------------------
(* parse_lvl *)

\* run properties (w:b) and paragraph properties (w:ind)
RunKeys == {"font-weight"}

BulletChar == "\\uf0b7"

\* '%{}.'.format(ilvl + 1)
NumberedText(ilvl) == "%" \o ToString(ilvl + 1) \o "."

list_styles ==
    [f \in {"none", "bullet", "lowerLetter", "lowerRoman", "upperLetter",
            "upperRoman", "decimal"} |->
        CASE f = "none" -> "none"
          [] f = "bullet" -> "disc"
          [] f = "lowerLetter" -> "lower-alpha"
          [] f = "lowerRoman" -> "lower-roman"
          [] f = "upperLetter" -> "upper-alpha"
          [] f = "upperRoman" -> "upper-roman"
          [] f = "decimal" -> "decimal"]

suff_chars ==
    [c \in {"tab", "space", "nothing"} |->
        CASE c = "tab" -> "\t" [] c = "space" -> " " [] c = "nothing" -> ""]

\* d[k] = v
DictSet(d, k, v) == [x \in DOMAIN d \cup {k} |-> IF x = k THEN v ELSE d[x]]

\* del d[k]
DictDel(d, k) == [x \in DOMAIN d \ {k} |-> d[x]]

\* The <w:lvl> elements: the w:ilvl attribute, the values of the pStyle,
\* numFmt, lvlText and suff children, and what parse_pr returns for the pPr
\* and rPr children (the empty dict when the child is absent).
LvlElems ==
    [ilvl : {0, 1},
     pStyle : StyleIds \cup {None, Missing},
     numFmt : {"bullet", "decimal", "chicago"},
     lvlText : {BulletChar, NumberedText(0), "%1)"},
     suff : DOMAIN suff_chars,
     pPr : Dicts,
     rPr : {d \in Dicts : DOMAIN d \subseteq RunKeys}]

\* the bullet levels followed by a tab that declare paragraph properties only
BulletLvlElems ==
    {e \in LvlElems : /\ e.ilvl = 0
                      /\ e.numFmt = "bullet"
                      /\ e.lvlText = BulletChar
                      /\ e.suff = "tab"
                      /\ e.rPr = EmptyDict}

\* the rules of lines 400-413 leaving text-indent in place
SimpleCssKeepIndent(style, e) ==
    IF suff_chars[e.suff] = "\t"
    THEN LET s1 == IF e.lvlText = BulletChar
                   THEN DictSet(style, "list-style-type", "disc")
                   ELSE IF /\ e.numFmt \in DOMAIN list_styles
                           /\ e.lvlText = NumberedText(e.ilvl)
                        THEN DictSet(style, "list-style-type",
                                     list_styles[e.numFmt])
                        ELSE style
         IN IF "list-style-type" \in DOMAIN s1
            THEN DictSet(s1, "display", "list-item")
            ELSE s1
    ELSE style

\* "If this kind of list numbering can be done using simple CSS, do that":
\* the dict after the rules of lines 400-413
SimpleCss(style, e) ==
    IF suff_chars[e.suff] = "\t"
    THEN LET s1 == IF e.lvlText = BulletChar
                   THEN DictSet(style, "list-style-type", "disc")
                   ELSE IF /\ e.numFmt \in DOMAIN list_styles
                           /\ e.lvlText = NumberedText(e.ilvl)
                        THEN DictSet(style, "list-style-type",
                                     list_styles[e.numFmt])
                        ELSE style
         IN IF "list-style-type" \in DOMAIN s1
            THEN LET s2 == DictSet(s1, "display", "list-item")
                 IN IF "text-indent" \in DOMAIN s2
                    THEN DictDel(s2, "text-indent")
                    ELSE s2
            ELSE s1
    ELSE style

\* docx.styles is the dict parse_styles returned
DocxHasStyle(id) == outcome = "returned" /\ id \in DOMAIN all_styles

\* "style = docx.styles[lvl.pStyle].full_style.copy()" raises KeyError
ParseLvlFails(e) ==
    /\ outcome = "returned"
    /\ lvl_outcome = "idle"
    /\ e.pStyle # None
    /\ ~DocxHasStyle(e.pStyle)
    /\ lvl_elem' = <<e>>
    /\ lvl_outcome' = "KeyError"
    /\ UNCHANGED <<styleVars, lvl, numVars, fixupVars>>

\* parse_lvl returns the Lvl object
ParseLvlReturns(e) ==
    /\ outcome = "returned"
    /\ lvl_outcome = "idle"
    /\ e.pStyle # None => DocxHasStyle(e.pStyle)
    /\ LET style == IF e.pStyle = None
                    THEN LvlAddr
                    ELSE DictCopy(all_styles[e.pStyle].full_style, LvlAddr)
           h0 == IF e.pStyle = None
                 THEN [heap EXCEPT ![LvlAddr] = EmptyDict]
                 ELSE Copied(heap, all_styles[e.pStyle].full_style, style)
           h1 == [h0 EXCEPT ![style] = DictUpdate(h0[style], e.pPr)]
           h2 == [h1 EXCEPT ![style] = DictUpdate(h1[style], e.rPr)]
       IN /\ heap' = [h2 EXCEPT ![style] = SimpleCss(h2[style], e)]
          /\ lvl' = <<[pStyle |-> e.pStyle, numFmt |-> e.numFmt,
                       lvlText |-> e.lvlText, suff |-> suff_chars[e.suff],
                       full_style |-> style]>>
    /\ lvl_elem' = <<e>>
    /\ lvl_outcome' = "returned"
    /\ UNCHANGED <<all_styles, stack, iter, outcome, numVars, fixupVars>>

parse_lvl(e) == ParseLvlFails(e) \/ ParseLvlReturns(e)

\* parse_numbering, called by load() once parse_styles has returned, comes
\* to a <w:lvl> element
LvlCall == outcome = "returned" /\ lvl_outcome = "idle"

----------------------------------------------------------------------------
(* load(): parse_styles, then parse_numbering reaching a bullet level *)

StyleNext ==
    \/ parse_styles
    \/ LvlCall /\ \E e \in BulletLvlElems : ParseLvlFails(e)
    \/ LvlCall /\ \E e \in BulletLvlElems : ParseLvlReturns(e)

StyleSpec == InitStyles /\ [][StyleNext]_vars

----------------------------------------------------------------------------
(* parse_lvl on every level element, in a document whose styles have no
   basedOn and of which at most one declares properties: the state
   parse_styles returns in is the one where every full_style is the style's
   own dict. *)

InitResolved ==
    /\ \E t \in [StyleIds -> Types] :
         all_styles = [s \in StyleIds |->
                         [Style(s, None, t[s]) EXCEPT !.full_style = StyleAddr(s)]]
    /\ \E s \in StyleIds : \E own \in Dicts :
         heap = [a \in Addrs |-> IF a = StyleAddr(s) THEN own ELSE EmptyDict]
    /\ stack = << >>
    /\ iter = NumStyles + 1
    /\ outcome = "returned"
    /\ LvlIdle
    /\ FixupIdle
    /\ NumIdle

LvlNext ==
    \/ LvlCall /\ \E e \in LvlElems : ParseLvlFails(e)
    \/ LvlCall /\ \E e \in LvlElems : ParseLvlReturns(e)

LvlSpec == InitResolved /\ [][LvlNext]_vars

----------------------------------------------------------------------------
(* parse_numbering *)

\* number of list levels a definition can have (w:ilvl is 0 .. NumLevels - 1)
NumLevels == 2

Ilvls == 0..(NumLevels - 1)

\* the w:numId and w:abstractNumId attribute values of numbering.xml
NumIds == {"1", "2"}
AbsIds == {"10", "11"}

\* the order of the <w:num> elements in numbering.xml
NumOrder == <<"1", "2">>

\* the Lvl object parse_lvl made for the <w:lvl> of an abstractNum, and for
\* the <w:lvl> of a lvlOverride; the StartOverride object; None
AbstractLvl(a, ilvl) == <<"abstractNum", a, ilvl>>
OverrideLvl(n, ilvl) == <<"lvlOverride", n, ilvl>>
StartOverride(n, ilvl) == <<"startOverride", n, ilvl>>
NoneLvl == <<"None", "", 0>>

\* "while len(levels) <= ilvl: levels.append(None)"
RECURSIVE PadTo(_, _)
PadTo(list, ilvl) ==
    IF Len(list) <= ilvl THEN PadTo(Append(list, NoneLvl), ilvl) ELSE list

\* lines 447-452: the levels list of an abstractNum from its <w:lvl>
\* children, given by their w:ilvl in document order
RECURSIVE ParseLevels(_, _, _)
ParseLevels(a, ilvls, levels) ==
    IF ilvls = << >>
    THEN levels
    ELSE LET ilvl == Head(ilvls)
             padded == PadTo(levels, ilvl)
         IN ParseLevels(a, Tail(ilvls),
                        [padded EXCEPT ![ilvl + 1] = AbstractLvl(a, ilvl)])

\* the sequence of the elements of a set of integers, ascending
RECURSIVE Ascending(_)
Ascending(S) ==
    IF S = {} THEN << >>
    ELSE LET m == CHOOSE x \in S : \A y \in S : x <= y
         IN <<m>> \o Ascending(S \ {m})

\* an <w:abstractNum> element: its numStyleLink value (or None) and the
\* w:ilvl of its <w:lvl> children; it has one or the other (line 456)
AbstractNumElems ==
    {[numStyleLink |-> None, lvls |-> Ascending(S)] : S \in SUBSET Ilvls}
        \cup {[numStyleLink |-> s, lvls |-> << >>] : s \in StyleIds}

\* lines 445-457: the value stored in abstract_num for an element, a list
\* of levels or a str (the name of a style)
ParseAbstractNum(a, e) ==
    IF e.numStyleLink = None
    THEN [isStr |-> FALSE, list |-> ParseLevels(a, e.lvls, << >>), str |-> None]
    ELSE [isStr |-> TRUE, list |-> << >>, str |-> e.numStyleLink]

\* a <w:lvlOverride> element: its w:ilvl and its only child, a <w:lvl> or a
\* <w:startOverride w:val=...>
LvlOverrideElems ==
    [ilvl : Ilvls, tag : {"lvl"}, val : {0}]
        \cup [ilvl : Ilvls, tag : {"startOverride"}, val : {1, 2}]

\* a <w:num> element: its abstractNumId value and its lvlOverride children
NumElems ==
    [abstractNumId : AbsIds,
     lvlOverride : {<< >>} \cup {<<o>> : o \in LvlOverrideElems}]

\* the entry a start override leaves in the overrides list: the
\* StartOverride object
KeptStartOverride(overrides, n, ilvl) ==
    [overrides EXCEPT ![ilvl + 1] = StartOverride(n, ilvl)]

\* lines 474-476: "so = parse_startOverride(ov)": the object is dropped
\* and the overrides list is left as padded
DroppedStartOverride(overrides, n, ilvl) == overrides

\* lines 466-476: the overrides list of a num from its lvlOverride
\* children, or the AssertionError of line 476
RECURSIVE ParseOverrides(_, _, _)
ParseOverrides(n, elems, overrides) ==
    IF elems = << >>
    THEN overrides
    ELSE LET ov == Head(elems)
             padded == PadTo(overrides, ov.ilvl)
         IN IF ov.tag = "lvl"
            THEN ParseOverrides(n, Tail(elems),
                    [padded EXCEPT ![ov.ilvl + 1] = OverrideLvl(n, ov.ilvl)])
            ELSE IF ov.val = 1
                 THEN ParseOverrides(n, Tail(elems),
                         DroppedStartOverride(padded, n, ov.ilvl))
                 ELSE "AssertionError"

\* Num.__init__
Num(abstract_num_id, overrides) ==
    [abstract_num_id |-> abstract_num_id, overrides |-> overrides]

\* the numId of the <w:num> element parse_numbering is at
NextNum == NumOrder[Cardinality(DOMAIN num) + 1]

\* docx.styles when parse_numbering is called: parse_styles has returned;
\* the styles have no basedOn and at most one of them carries a numId
\* (w:numPr in its w:pPr).
\* numbering.xml: two abstractNum elements, whose parsed form is in
\* abstract_num, and two num elements, not parsed yet.
InitNumbering ==
    /\ \E t \in [StyleIds -> Types] :
         all_styles = [s \in StyleIds |->
                         [Style(s, None, t[s]) EXCEPT !.full_style = StyleAddr(s)]]
    /\ \E s \in StyleIds :
       \E own \in {EmptyDict} \cup {[k \in {"-ooxml-numId"} |-> n] : n \in NumIds} :
         heap = [a \in Addrs |-> IF a = StyleAddr(s) THEN own ELSE EmptyDict]
    /\ stack = << >>
    /\ iter = NumStyles + 1
    /\ outcome = "returned"
    /\ LvlIdle
    /\ FixupIdle
    /\ \E ae \in [AbsIds -> AbstractNumElems] :
         abstract_num = [a \in AbsIds |-> ParseAbstractNum(a, ae[a])]
    /\ num_elems \in [NumIds -> NumElems]
    /\ num = << >>
    /\ num_outcome = "running"
    /\ query = << >>
    /\ lstack = << >>
    /\ lresult = << >>

\* lines 461-477 for one <w:num> element, when no assertion fails
ParseNum ==
    /\ num_outcome = "running"
    /\ Cardinality(DOMAIN num) < Len(NumOrder)
    /\ LET n == NextNum
           e == num_elems[n]
           overrides == ParseOverrides(n, e.lvlOverride, << >>)
       IN /\ overrides # "AssertionError"
          /\ num' = [m \in DOMAIN num \cup {n} |->
                        IF m = n THEN Num(e.abstractNumId, overrides)
                        ELSE num[m]]
    /\ UNCHANGED <<fixupVars, styleVars, lvlVars, num_elems, abstract_num, num_outcome,
                   query, lstack, lresult>>

\* "assert so.val == 1" fails
ParseNumAsserts ==
    /\ num_outcome = "running"
    /\ Cardinality(DOMAIN num) < Len(NumOrder)
    /\ ParseOverrides(NextNum, num_elems[NextNum].lvlOverride, << >>)
            = "AssertionError"
    /\ num_outcome' = "AssertionError"
    /\ UNCHANGED <<fixupVars, styleVars, lvlVars, num_elems, abstract_num, num,
                   query, lstack, lresult>>

\* "return Numbering(abstract_num, num)"
NumberingReturn ==
    /\ num_outcome = "running"
    /\ Cardinality(DOMAIN num) = Len(NumOrder)
    /\ num_outcome' = "returned"
    /\ UNCHANGED <<fixupVars, styleVars, lvlVars, num_elems, abstract_num, num,
                   query, lstack, lresult>>

parse_numbering == ParseNum \/ ParseNumAsserts \/ NumberingReturn

----------------------------------------------------------------------------
(* Document.get_list_style_at *)

Returned(v) == <<"returned", v>>
Raised(exc) == <<"raised", exc>>

\* the arguments of the frame that is running
LNum == lstack[Len(lstack)]
LIlvl == query[2]

\* an override test that takes any entry of the list, None too
HasOverrideEntry(n, ilvl) == ilvl < Len(num[n].overrides)

\* "ilvl < len(ov) and ov[ilvl] is not None"
HasOverride(n, ilvl) ==
    /\ ilvl < Len(num[n].overrides)
    /\ num[n].overrides[ilvl + 1] # NoneLvl

\* self.numbering.abstract_num[num.abstract_num_id]
AbstractNumOf(n) == abstract_num[num[n].abstract_num_id]

\* self.styles[abstract_num].full_style
LinkedFullStyle(n) == heap[all_styles[AbstractNumOf(n).str].full_style]

\* a caller asks for the style of level ilvl of list numId
LookupCall ==
    /\ num_outcome = "returned"
    /\ query = << >>
    /\ \E n \in NumIds, ilvl \in 0..NumLevels :
         /\ query' = <<n, ilvl>>
         /\ lstack' = <<n>>
    /\ UNCHANGED <<fixupVars, styleVars, lvlVars, num_elems, abstract_num, num,
                   num_outcome, lresult>>

Running == lstack # << >> /\ lresult = << >>

\* "return ov[ilvl]"
ReturnOverride ==
    /\ Running
    /\ HasOverride(LNum, LIlvl)
    /\ lresult' = Returned(num[LNum].overrides[LIlvl + 1])
    /\ lstack' = << >>
    /\ UNCHANGED <<fixupVars, styleVars, lvlVars, num_elems, abstract_num, num,
                   num_outcome, query>>

\* "return abstract_num[ilvl]"
ReturnAbstract ==
    /\ Running
    /\ ~HasOverride(LNum, LIlvl)
    /\ ~AbstractNumOf(LNum).isStr
    /\ LIlvl < Len(AbstractNumOf(LNum).list)
    /\ lresult' = Returned(AbstractNumOf(LNum).list[LIlvl + 1])
    /\ lstack' = << >>
    /\ UNCHANGED <<fixupVars, styleVars, lvlVars, num_elems, abstract_num, num,
                   num_outcome, query>>

\* "abstract_num[ilvl]" raises IndexError
RaiseIndexError ==
    /\ Running
    /\ ~HasOverride(LNum, LIlvl)
    /\ ~AbstractNumOf(LNum).isStr
    /\ LIlvl >= Len(AbstractNumOf(LNum).list)
    /\ lresult' = Raised("IndexError")
    /\ UNCHANGED <<fixupVars, styleVars, lvlVars, num_elems, abstract_num, num,
                   num_outcome, query, lstack>>

\* "style.full_style['-ooxml-numId']" raises KeyError
RaiseKeyError ==
    /\ Running
    /\ ~HasOverride(LNum, LIlvl)
    /\ AbstractNumOf(LNum).isStr
    /\ "-ooxml-numId" \notin DOMAIN LinkedFullStyle(LNum)
    /\ lresult' = Raised("KeyError")
    /\ UNCHANGED <<fixupVars, styleVars, lvlVars, num_elems, abstract_num, num,
                   num_outcome, query, lstack>>

\* "return self.get_list_style_at(style.full_style['-ooxml-numId'], ilvl)"
FollowLink ==
    /\ Running
    /\ ~HasOverride(LNum, LIlvl)
    /\ AbstractNumOf(LNum).isStr
    /\ "-ooxml-numId" \in DOMAIN LinkedFullStyle(LNum)
    /\ Len(lstack) < RecursionLimit
    /\ lstack' = Append(lstack, LinkedFullStyle(LNum)["-ooxml-numId"])
    /\ UNCHANGED <<fixupVars, styleVars, lvlVars, num_elems, abstract_num, num,
                   num_outcome, query, lresult>>

\* the same call when the interpreter's stack is full
LinkOverflow ==
    /\ Running
    /\ ~HasOverride(LNum, LIlvl)
    /\ AbstractNumOf(LNum).isStr
    /\ "-ooxml-numId" \in DOMAIN LinkedFullStyle(LNum)
    /\ Len(lstack) >= RecursionLimit
    /\ lresult' = Raised("RecursionError")
    /\ UNCHANGED <<fixupVars, styleVars, lvlVars, num_elems, abstract_num, num,
                   num_outcome, query, lstack>>

get_list_style_at ==
    \/ ReturnOverride
    \/ ReturnAbstract
    \/ RaiseIndexError
    \/ RaiseKeyError
    \/ FollowLink
    \/ LinkOverflow

NumNext == parse_numbering \/ LookupCall \/ get_list_style_at

NumSpec == InitNumbering /\ [][NumNext]_vars

----------------------------------------------------------------------------
(* Properties of the cascade (parse_styles) *)

\* the style's own map and its resolved map
OwnMap(s) == heap[all_styles[s].style]
FullMap(s) == heap[all_styles[s].full_style]

\* the style and the styles it is based on, directly or not
RECURSIVE AncestorsFrom(_, _)
AncestorsFrom(s, n) ==
    IF n = 0 \/ s \notin StyleIds
    THEN {}
    ELSE {s} \cup AncestorsFrom(all_styles[s].basedOn, n - 1)

AncestorsOrSelf(s) == AncestorsFrom(s, NumStyles)

\* where the based-on chain of a style ends: at a style without basedOn
\* ("ok"), at an id that is no style ("dangling"), or nowhere ("cycle")
RECURSIVE FateFrom(_, _)
FateFrom(s, n) ==
    IF s = None THEN "ok"
    ELSE IF s \notin StyleIds THEN "dangling"
    ELSE IF n = 0 THEN "cycle"
    ELSE FateFrom(all_styles[s].basedOn, n - 1)

Fate(s) == FateFrom(s, NumStyles)

HasDangling == \E s \in StyleIds : all_styles[s].basedOn \notin StyleIds \cup {None}

\* the first style, in the order of the loop of parse_styles, whose chain
\* does not end at a style without basedOn
FirstBad == CHOOSE s \in StyleIds :
                /\ Fate(s) # "ok"
                /\ \A r \in StyleIds : r < s => Fate(r) = "ok"

\* C1: once parse_styles has returned, the resolved map of a style without
\* basedOn is its own map, the resolved map of any other style has exactly
\* the keys of its parent's resolved map and of its own map, with its own
\* value on every key it declares and the parent's resolved value on the
\* others; so a key is resolved iff the style or an ancestor declares it.
C1_CascadeOverlay ==
    outcome = "returned" =>
        \A s \in StyleIds :
            LET b == all_styles[s].basedOn IN
            /\ all_styles[s].full_style # NoDict
            /\ b = None => FullMap(s) = OwnMap(s)
            /\ b # None =>
                /\ b \in StyleIds
                /\ DOMAIN FullMap(s) = DOMAIN FullMap(b) \cup DOMAIN OwnMap(s)
                /\ \A k \in DOMAIN OwnMap(s) : FullMap(s)[k] = OwnMap(s)[k]
                /\ \A k \in DOMAIN FullMap(b) \ DOMAIN OwnMap(s) :
                        FullMap(s)[k] = FullMap(b)[k]
            /\ \A k \in Keys :
                k \in DOMAIN FullMap(s)
                    <=> \E a \in AncestorsOrSelf(s) : k \in DOMAIN OwnMap(a)

\* a child that overrides one value of its parent and inherits another
C1_Witness ==
    /\ outcome = "returned"
    /\ \E s \in StyleIds :
        /\ all_styles[s].basedOn \in StyleIds
        /\ \E k \in DOMAIN OwnMap(s) \cap DOMAIN FullMap(all_styles[s].basedOn) :
              OwnMap(s)[k] # FullMap(all_styles[s].basedOn)[k]
        /\ DOMAIN FullMap(all_styles[s].basedOn) \ DOMAIN OwnMap(s) # {}

\* C2: a style that is being resolved is never entered again without a
\* cycle error being signalled, and the pass does not end by exhausting the
\* interpreter's stack.
C2_CycleSignalled ==
    /\ (\E i, j \in DOMAIN stack : i < j /\ stack[i].s = stack[j].s)
            => outcome = "CycleError"
    /\ outcome # "RecursionError"

C4_StylesNotMutated ==
    [][\A s \in StyleIds :
        /\ all_styles'[s].id = all_styles[s].id
        /\ all_styles'[s].basedOn = all_styles[s].basedOn
        /\ all_styles'[s].type = all_styles[s].type
        /\ all_styles'[s].style = all_styles[s].style
        /\ heap'[all_styles[s].style] = heap[all_styles[s].style]
        /\ all_styles[s].full_style # NoDict =>
            /\ all_styles'[s].full_style = all_styles[s].full_style
            /\ heap'[all_styles[s].full_style] = heap[all_styles[s].full_style]
      ]_vars

\* a level was parsed on top of a style whose full_style is its own dict,
\* and declares something that style does not, while another style has
\* inherited from a parent
C4_Witness ==
    /\ lvl_outcome = "returned"
    /\ lvl[1].pStyle \in StyleIds
    /\ all_styles[lvl[1].pStyle].full_style = all_styles[lvl[1].pStyle].style
    /\ heap[lvl[1].full_style] # OwnMap(lvl[1].pStyle)
    /\ \E s \in StyleIds : all_styles[s].full_style = FullAddr(s)

----------------------------------------------------------------------------
(* Properties of the numbering (parse_numbering, get_list_style_at) *)

\* the <w:num> element of list n has a lvlOverride for level i holding a
\* <w:lvl> (a full-level override), or holding a <w:startOverride>
FullOverrideAt(n, i) ==
    \E k \in DOMAIN num_elems[n].lvlOverride :
        /\ num_elems[n].lvlOverride[k].ilvl = i
        /\ num_elems[n].lvlOverride[k].tag = "lvl"

StartOverrideAt(n, i) ==
    \E k \in DOMAIN num_elems[n].lvlOverride :
        /\ num_elems[n].lvlOverride[k].ilvl = i
        /\ num_elems[n].lvlOverride[k].tag = "startOverride"

\* the abstract definition list n refers to
DefinitionOf(n) == abstract_num[num_elems[n].abstractNumId]

\* the call under way has returned a value
HasReturned == lresult # << >> /\ lresult[1] = "returned"

Undefined == <<"undefined", "", 0>>

\* the list named by the style an alias definition links to ("" if none)
LinkTarget(n) ==
    LET full == heap[all_styles[DefinitionOf(n).str].full_style]
    IN IF "-ooxml-numId" \in DOMAIN full THEN full["-ooxml-numId"] ELSE ""

\* level i of the resolved level sequence of list n: its full-level
\* override at i, else level i of its abstract definition, which for an
\* alias is level i of the resolved sequence of the list it is linked to
RECURSIVE ResolvedLevel(_, _, _)
ResolvedLevel(n, i, fuel) ==
    IF FullOverrideAt(n, i) THEN OverrideLvl(n, i)
    ELSE IF ~DefinitionOf(n).isStr
         THEN IF i < Len(DefinitionOf(n).list)
              THEN DefinitionOf(n).list[i + 1]
              ELSE Undefined
         ELSE IF fuel = 0 \/ LinkTarget(n) \notin NumIds
              THEN Undefined
              ELSE ResolvedLevel(LinkTarget(n), i, fuel - 1)

\* C5: what get_list_style_at(n, i) returns is the Lvl of the full-level
\* override the <w:num> element of n has for i when it has one; when it has
\* none (no lvlOverride for i, or one that holds a startOverride) and the
\* definition n refers to has levels of its own, it is entry i of those
\* levels.
C5_OverrideElseAbstract ==
    HasReturned =>
        LET n == query[1]
            i == query[2]
        IN /\ FullOverrideAt(n, i) => lresult[2] = OverrideLvl(n, i)
           /\ (~FullOverrideAt(n, i) /\ ~DefinitionOf(n).isStr) =>
                /\ i < Len(DefinitionOf(n).list)
                /\ lresult[2] = DefinitionOf(n).list[i + 1]

\* a level with a start-value-only override is looked up and the level of
\* the abstract definition comes back
C5_Witness ==
    /\ HasReturned
    /\ StartOverrideAt(query[1], query[2])
    /\ lresult[2] = AbstractLvl(num_elems[query[1]].abstractNumId, query[2])

\* C6: parse_numbering accepts a start-value-only override whatever its
\* value (so that the value can become the start of the level).
C6_StartOverrideAccepted == num_outcome # "AssertionError"

\* C7: the level lookup never raises an error for a level index beyond
\* the levels that are defined.
C7_OutOfRangeIsNoLevel == lresult # Raised("IndexError")

\* C8: when the definition list n refers to is an alias and n has no
\* full-level override at i, get_list_style_at(n, i) returns level i of the
\* resolved level sequence of the list the alias leads to.
C8_AliasYieldsTarget ==
    (HasReturned /\ DefinitionOf(query[1]).isStr
                 /\ ~FullOverrideAt(query[1], query[2])) =>
        /\ LinkTarget(query[1]) \in NumIds
        /\ lresult[2] = ResolvedLevel(LinkTarget(query[1]), query[2],
                                      RecursionLimit)

\* the lookup went through an alias to another list and came back with
\* that list's own full-level override
C8_Witness ==
    /\ HasReturned
    /\ DefinitionOf(query[1]).isStr
    /\ LinkTarget(query[1]) \in NumIds \ {query[1]}
    /\ lresult[2] = OverrideLvl(LinkTarget(query[1]), query[2])

\* C9: a list that is being resolved is never entered again without a cycle
\* error being signalled, and the lookup does not end by exhausting the
\* interpreter's stack.
C9_AliasCycleSignalled ==
    /\ (\E i, j \in DOMAIN lstack : i < j /\ lstack[i] = lstack[j])
            => lresult = Raised("CycleError")
    /\ lresult # Raised("RecursionError")

----------------------------------------------------------------------------
(* Properties of parse_lvl *)

\* the resolved style of the level's base paragraph style
LvlBase == IF lvl_elem[1].pStyle = None
           THEN EmptyDict
           ELSE FullMap(lvl_elem[1].pStyle)

\* base overlaid with the declarations of the level: d has the keys of the
\* three maps, with the value of rPr, else of pPr, else of the base
IsLvlOverlay(d) ==
    LET e == lvl_elem[1] IN
    /\ DOMAIN d = DOMAIN LvlBase \cup DOMAIN e.pPr \cup DOMAIN e.rPr
    /\ \A k \in DOMAIN d :
          d[k] = IF k \in DOMAIN e.rPr THEN e.rPr[k]
                 ELSE IF k \in DOMAIN e.pPr THEN e.pPr[k]
                 ELSE LvlBase[k]

\* the level is one that CSS can number: it is followed by a tab and its
\* text is the bullet or "%N." for its own level in a format CSS knows
CssNumbered(e) ==
    /\ e.suff = "tab"
    /\ \/ e.lvlText = BulletChar
       \/ /\ e.numFmt \in DOMAIN list_styles
          /\ e.lvlText = "%" \o ToString(e.ilvl + 1) \o "."

\* C10 as stated: the resolved style of every level is the overlay, whatever
\* its suffix, numbering kind and text.
C10_LvlOverlayAlways ==
    lvl_outcome = "returned" => IsLvlOverlay(heap[lvl[1].full_style])

\* C10 amended: the resolved style of a level is the overlay, unless the
\* level is one that CSS can number; then it is the overlay without
\* text-indent and with list-style-type (disc for the bullet, else the CSS
\* name of the format) and display: list-item.
C10_LvlOverlay ==
    lvl_outcome = "returned" =>
        LET e == lvl_elem[1]
            full == heap[lvl[1].full_style]
        IN IF ~CssNumbered(e)
           THEN IsLvlOverlay(full)
           ELSE /\ "text-indent" \notin DOMAIN full
                /\ "list-style-type" \in DOMAIN full
                /\ full["list-style-type"] =
                      IF e.lvlText = BulletChar THEN "disc"
                      ELSE list_styles[e.numFmt]
                /\ "display" \in DOMAIN full
                /\ full["display"] = "list-item"
                /\ \E d \in Dicts :
                      /\ IsLvlOverlay(d)
                      /\ DOMAIN full \cap Keys = DOMAIN d \ {"text-indent"}
                      /\ \A k \in DOMAIN full \cap Keys : full[k] = d[k]

\* a numbered level with a tab, on top of a style, whose declarations
\* override the style and each other and include text-indent
C10_Witness ==
    /\ lvl_outcome = "returned"
    /\ LET e == lvl_elem[1] IN
        /\ e.pStyle \in StyleIds
        /\ e.lvlText # BulletChar
        /\ CssNumbered(e)
        /\ "text-indent" \in DOMAIN e.pPr
        /\ \E k \in DOMAIN e.rPr \cap DOMAIN e.pPr : e.rPr[k] # e.pPr[k]
        /\ \E k \in DOMAIN e.pPr \cap DOMAIN LvlBase : e.pPr[k] # LvlBase[k]

----------------------------------------------------------------------------
(* fixup_formatting (src/fixups.py): the paragraphs rewrite_spans is given *)

\* the most runs a paragraph has
MaxKids == 3

\* the CSS properties of runs and their values
FmtDicts ==
    UNION {[D -> {"monospace", "serif", "bold"}] : D \in SUBSET {"font-family", "font-weight"}}

\* the dicts transform.py makes of a run's properties
RunStyles ==
    {d \in FmtDicts :
        /\ "font-family" \in DOMAIN d => d["font-family"] \in {"monospace", "serif"}
        /\ "font-weight" \in DOMAIN d => d["font-weight"] = "bold"}

\* docx.styles[cls].full_style for the class of the paragraph
InheritedStyles ==
    {d \in RunStyles : Cardinality(DOMAIN d) <= 1 /\ "serif" \notin {d[k] : k \in DOMAIN d}}

\* docx.styles[kid.attrs['class']].full_style for the class of a run
CharStyle == [k \in {"font-weight"} |-> "bold"]

\* The children of a paragraph: a string (of text or of whitespace), an
\* element that is not a span, or a span.  A span has content (transform.py
\* returns None for a run without content); it has a style or a class, or
\* else at least two children.
Kids ==
    [name : {"str"}, style : {EmptyDict}, class : {FALSE},
     content : {<<"text">>, <<"space">>}]
    \cup [name : {"i"}, style : {EmptyDict}, class : {FALSE},
          content : {<<"elem">>}]
    \cup [name : {"span"}, style : RunStyles \ {EmptyDict}, class : {FALSE},
          content : {<<"text">>}]
    \cup [name : {"span"}, style : {EmptyDict}, class : {TRUE},
          content : {<<"text">>}]
    \cup [name : {"span"}, style : {EmptyDict}, class : {FALSE},
          content : {<<"text", "elem">>}]

\* transform.py merges adjacent strings, so no two strings are neighbours
KidSeqs ==
    {ks \in UNION {[1..n -> Kids] : n \in 1..MaxKids} :
        \A k \in 1..(Len(ks) - 1) :
            ~(ks[k].name = "str" /\ ks[k + 1].name = "str")}

\* A piece of content: a string (its characters in content), an element
\* that is not a span (content names it), or a span made by new_span.
StrNode(chars) == <<"str", EmptyDict, chars>>
ElemNode(unit) == <<"elem", EmptyDict, <<unit>>>>
MarkerNode == <<"marker", EmptyDict, << >>>>

RECURSIVE SumLen(_, _)
\* the number of pieces of content in the first k kids
SumLen(ks, k) == IF k = 0 THEN 0 ELSE SumLen(ks, k - 1) + Len(ks[k].content)

\* kid.content for a span, [kid] otherwise, every piece with its number in
\* the paragraph
KidContent(ks, k) ==
    [j \in 1..Len(ks[k].content) |->
        LET unit == <<SumLen(ks, k - 1) + j, ks[k].content[j]>>
        IN  IF unit[2] = "elem" THEN ElemNode(unit) ELSE StrNode(<<unit>>)]

\* the state when rewrite_spans is called on a paragraph
InitFormatting ==
    /\ all_styles = << >>
    /\ heap = << >>
    /\ stack = << >>
    /\ iter = 0
    /\ outcome = "idle"
    /\ LvlIdle
    /\ NumIdle
    /\ CntIdle
    /\ ListIdle
    /\ warnings = 0
    /\ ElemIdle
    /\ fmt_parent \in [marker : BOOLEAN, inherited_style : InheritedStyles,
                       kids : KidSeqs]
    /\ items = << >>
    /\ paragraph_style = << >>
    /\ all_content = << >>
    /\ ranges = << >>
    /\ current_style = << >>
    /\ fmt_pc = <<"start", 0>>
    /\ fmt_result = << >>
    /\ gross_cases = 0

----------------------------------------------------------------------------
(* rewrite_spans: the items and the style of the paragraph *)

\* the style of a run: that of the paragraph, then its own, then its class's
RunStyle(kid, inherited_style) ==
    IF kid.name = "span"
    THEN LET run_style == DictUpdate(inherited_style, kid.style)
         IN  IF kid.class THEN DictUpdate(run_style, CharStyle) ELSE run_style
    ELSE inherited_style

\* the loop "for kid in parent.content[rewritable_content_start:]"
AllItems(p) ==
    [k \in 1..Len(p.kids) |->
        [content |-> KidContent(p.kids, k),
         run_style |-> RunStyle(p.kids[k], p.inherited_style)]]

\* all(isinstance(ht, str) and ht.isspace() for ht in content)
AllSpace(content) ==
    \A j \in 1..Len(content) :
        /\ content[j][1] = "str"
        /\ Len(content[j][3]) > 0
        /\ \A c \in 1..Len(content[j][3]) : content[j][3][c][2] = "space"

RECURSIVE DropTrailingSpace(_)
\* while items and all(...) for items[-1][0]: del items[-1]
DropTrailingSpace(its) ==
    IF Len(its) > 0 /\ AllSpace(its[Len(its)].content)
    THEN DropTrailingSpace(SubSeq(its, 1, Len(its) - 1))
    ELSE its

\* d without the key k
DictWithout(d, k) == [j \in DOMAIN d \ {k} |-> d[j]]

\* items[i][1].get('font-family') is this font
HasFont(item, font) ==
    "font-family" \in DOMAIN item.run_style /\ item.run_style["font-family"] = font

\* the style of the paragraph: the inherited one, without a monospace font,
\* and with the font the paragraph begins and ends in
ParagraphStyle(inherited_style, its) ==
    LET ps == IF "font-family" \in DOMAIN inherited_style
                 /\ inherited_style["font-family"] = "monospace"
              THEN DictWithout(inherited_style, "font-family")
              ELSE inherited_style
    IN  IF /\ Len(its) > 0
           /\ "font-family" \in DOMAIN its[1].run_style
           /\ its[1].run_style["font-family"] # "monospace"
           /\ HasFont(its[Len(its)], its[1].run_style["font-family"])
        THEN [k \in DOMAIN ps \cup {"font-family"} |->
                 IF k = "font-family" THEN its[1].run_style["font-family"]
                 ELSE ps[k]]
        ELSE ps

\* {p: v for p, v in run_style.items() if paragraph_style.get(p) != v}
WithoutParagraphStyle(run_style, ps) ==
    [k \in {p \in DOMAIN run_style : ~(p \in DOMAIN ps /\ ps[p] = run_style[p])}
        |-> run_style[k]]

\* rewrite_spans up to "# Build the ranges."
BuildItems ==
    /\ fmt_pc = <<"start", 0>>
    /\ LET its == DropTrailingSpace(AllItems(fmt_parent))
       IN  /\ items' = its
           /\ paragraph_style' = ParagraphStyle(fmt_parent.inherited_style, its)
    /\ all_content' = << >>
    /\ ranges' = << >>
    /\ current_style' = << >>
    /\ fmt_pc' = <<"loop", 1>>
    /\ UNCHANGED <<fmt_parent, fmt_result, gross_cases, styleVars, lvlVars,
                   numVars, elemVars, cntVars, listVars, warnings>>

----------------------------------------------------------------------------
(* rewrite_spans: set_current_style_to and the ranges *)

\* every open range ends at the next item
EndsAlways(style, prop, old_val) == TRUE

\* style.get(prop, not old_val) != old_val: the open range of prop ends here
EndsHere(style, prop, old_val) ==
    ~(prop \in DOMAIN style /\ style[prop] = old_val)

\* the props whose ranges set_current_style_to(style) ends
Ended(cs, style) == {prop \in DOMAIN cs : EndsHere(style, prop, cs[prop][2])}

\* ranges after "ranges[start, here][prop] = old_val" for the ended props
RangesAfter(rs, cs, style, here) ==
    LET ended == Ended(cs, style)
        at(key) == {prop \in ended : cs[prop][1] = key[1] /\ here = key[2]}
    IN  [key \in DOMAIN rs \cup {<<cs[prop][1], here>> : prop \in ended} |->
            DictUpdate(IF key \in DOMAIN rs THEN rs[key] ELSE EmptyDict,
                       [prop \in at(key) |-> cs[prop][2]])]

\* current_style after the two loops of set_current_style_to(style)
CurrentStyleAfter(cs, style, here) ==
    LET kept == DOMAIN cs \ Ended(cs, style)
    IN  [prop \in kept \cup DOMAIN style |->
            IF prop \in kept THEN cs[prop] ELSE <<here, style[prop]>>]

\* the two assertions of set_current_style_to hold
SetStyleAsserts(cs, style) ==
    LET after == CurrentStyleAfter(cs, style, 0)
    IN  /\ \A prop \in DOMAIN style \cap (DOMAIN cs \ Ended(cs, style)) :
               cs[prop][2] = style[prop]
        /\ [prop \in DOMAIN after |-> after[prop][2]] = style

\* one turn of "for content, run_style in items"
LoopItem ==
    /\ fmt_pc[1] = "loop"
    /\ fmt_pc[2] <= Len(items)
    /\ LET item == items[fmt_pc[2]]
           style == WithoutParagraphStyle(item.run_style, paragraph_style)
           here == Len(all_content)
       IN  IF SetStyleAsserts(current_style, style)
           THEN /\ ranges' = RangesAfter(ranges, current_style, style, here)
                /\ current_style' = CurrentStyleAfter(current_style, style, here)
                /\ all_content' = all_content \o item.content
                /\ fmt_pc' = <<"loop", fmt_pc[2] + 1>>
           ELSE /\ fmt_pc' = <<"AssertionError", 0>>
                /\ UNCHANGED <<ranges, current_style, all_content>>
    /\ UNCHANGED <<fmt_parent, items, paragraph_style, fmt_result, gross_cases,
                   styleVars, lvlVars, numVars, elemVars, cntVars, listVars, warnings>>

\* the order of ranges.sort(key=lambda triple: (triple[0], -triple[1]))
SortsBefore(a, b) == a[1] < b[1] \/ (a[1] = b[1] /\ a[2] > b[2])

RECURSIVE SortedRanges(_, _)
\* the list of (start, stop, style), sorted
SortedRanges(rs, keys) ==
    IF keys = {} THEN << >>
    ELSE LET first == CHOOSE k \in keys : \A j \in keys \ {k} : SortsBefore(k, j)
         IN  <<<<first[1], first[2], rs[first]>>>>
                 \o SortedRanges(rs, keys \ {first})

----------------------------------------------------------------------------
(* rewrite_spans: new_span and build_result *)

RECURSIVE MergeStrings(_)
\* "Merge adjacent strings, if any."
MergeStrings(content) ==
    IF Len(content) <= 1 THEN content
    ELSE IF content[1][1] = "str" /\ content[2][1] = "str"
         THEN MergeStrings(<<StrNode(content[1][3] \o content[2][3])>>
                               \o SubSeq(content, 3, Len(content)))
         ELSE <<content[1]>> \o MergeStrings(Tail(content))

\* html.span(*content) with the style
new_span(content, style) == <<"span", style, MergeStrings(content)>>

\* the part of a split range that is left of stop is the only one kept
GrossAfterDropped(r0, r1, rs, stop) == << >>

\* "the gross case": the part of the range that goes to after_ranges
GrossAfter(r0, r1, rs, stop) == <<<<stop, r1, rs>>>>

\* the part that goes to inner_ranges
GrossInner(r0, r1, rs, stop) == <<<<r0, stop, rs>>>>

\* the content is taken up again where the span started
ContentIndexAtStart(start, stop) == start

\* content_index = stop
ContentIndexAfter(start, stop) == stop

\* all_content[from:to]
Slice(content, from, to) == SubSeq(content, from + 1, to)

\* what build_result gives when one of its assertions fails
BuildFails == [ok |-> FALSE, content |-> << >>, gross |-> 0, heads |-> {}]

RECURSIVE SplitRanges(_, _, _, _)
\* "split 'ranges' into two parts": the loop over ranges[1:]
SplitRanges(rest, start, stop, i1) ==
    IF Len(rest) = 0
    THEN [ok |-> TRUE, inner |-> << >>, after |-> << >>, gross |-> 0]
    ELSE LET r0 == rest[1][1]
             r1 == rest[1][2]
             rs == rest[1][3]
             more == SplitRanges(Tail(rest), start, stop, i1)
         IN  IF ~(start <= r0 /\ r0 < r1 /\ r1 <= i1) \/ ~more.ok
             THEN [ok |-> FALSE, inner |-> << >>, after |-> << >>, gross |-> 0]
             ELSE IF r1 <= stop
             THEN [more EXCEPT !.inner = <<rest[1]>> \o @]
             ELSE IF stop <= r0
             THEN [more EXCEPT !.after = <<rest[1]>> \o @]
             ELSE [more EXCEPT !.inner = GrossInner(r0, r1, rs, stop) \o @,
                               !.after = GrossAfter(r0, r1, rs, stop) \o @,
                               !.gross = @ + 1]

RECURSIVE build_result(_, _, _, _)
RECURSIVE BuildLoop(_, _, _, _, _, _)

\* the loop "while ranges" of build_result and what follows it.  gross
\* counts the turns of "the gross case", and heads holds the value ranges
\* had at every "start, stop, style = ranges[0]", in this call and in the
\* calls it made.
BuildLoop(content, result, content_index, rs, i0, i1) ==
    IF Len(rs) = 0
    THEN [ok |-> TRUE, content |-> result \o Slice(content, content_index, i1),
          gross |-> 0, heads |-> {}]
    ELSE LET start == rs[1][1]
             stop == rs[1][2]
             style == rs[1][3]
             split == SplitRanges(Tail(rs), start, stop, i1)
             child == build_result(content, split.inner, start, stop)
             rest == BuildLoop(content,
                               result \o Slice(content, content_index, start)
                                      \o <<new_span(child.content, style)>>,
                               ContentIndexAfter(start, stop),
                               split.after, i0, i1)
         IN  IF ~(i0 <= start /\ start < stop /\ stop <= i1)
                \/ ~(content_index <= start)
             THEN BuildFails
             ELSE IF ~split.ok THEN BuildFails
             ELSE IF ~child.ok THEN BuildFails
             ELSE IF ~rest.ok THEN BuildFails
             ELSE [rest EXCEPT !.gross = @ + split.gross + child.gross,
                               !.heads = @ \cup child.heads \cup {rs}]

\* build_result(ranges, i0, i1) over all_content = content
build_result(content, rs, i0, i1) == BuildLoop(content, << >>, i0, rs, i0, i1)

\* parent.with_content_slice(rewritable_content_start, len(parent.content), c)
WithContentSlice(p, c) == IF p.marker THEN <<MarkerNode>> \o c ELSE c

\* rewrite_spans from set_current_style_to({}) to its return
BuildResult ==
    /\ fmt_pc[1] = "loop"
    /\ fmt_pc[2] = Len(items) + 1
    /\ LET here == Len(all_content)
           rs == RangesAfter(ranges, current_style, EmptyDict, here)
           built == build_result(all_content, SortedRanges(rs, DOMAIN rs), 0, here)
       IN  /\ ranges' = rs
           /\ current_style' = CurrentStyleAfter(current_style, EmptyDict, here)
           /\ IF SetStyleAsserts(current_style, EmptyDict) /\ built.ok
              THEN /\ fmt_result' = WithContentSlice(fmt_parent, built.content)
                   /\ gross_cases' = built.gross
                   /\ fmt_pc' = <<"done", 0>>
              ELSE /\ fmt_pc' = <<"AssertionError", 0>>
                   /\ UNCHANGED <<fmt_result, gross_cases>>
    /\ UNCHANGED <<fmt_parent, items, paragraph_style, all_content,
                   styleVars, lvlVars, numVars, elemVars, cntVars, listVars, warnings>>

rewrite_spans == BuildItems \/ LoopItem \/ BuildResult

FmtNext == BuildItems \/ LoopItem \/ BuildResult

FmtSpec == InitFormatting /\ [][FmtNext]_vars

----------------------------------------------------------------------------
(* fixup_formatting: paragraphs whose properties overlap *)

\* the most runs such a paragraph has
MaxRuns == 5

\* the properties of the runs; every one has one value
RunProps == {"font-family", "font-weight", "font-style"}
RunValue(prop) ==
    CASE prop = "font-family" -> "serif"
      [] prop = "font-weight" -> "bold"
      [] OTHER -> "italic"

\* the runs a property is given to: those from a to b, or none
Stretches(n) == {<<a, b>> : a \in 1..n, b \in 1..n} \cup {<<1, 0>>}

\* the k-th run of the paragraph: a span with the properties whose stretch
\* it is in; the run at empty has no content
StretchRun(stretch, k, empty) ==
    [name |-> "span",
     style |-> [prop \in {q \in RunProps : stretch[q][1] <= k /\ k <= stretch[q][2]}
                  |-> RunValue(prop)],
     class |-> FALSE,
     content |-> IF k = empty THEN << >> ELSE <<"text">>]

\* the state when rewrite_spans is called on a paragraph of n runs, every
\* one with a property, of which at most one is empty
InitStretches ==
    /\ all_styles = << >>
    /\ heap = << >>
    /\ stack = << >>
    /\ iter = 0
    /\ outcome = "idle"
    /\ LvlIdle
    /\ NumIdle
    /\ CntIdle
    /\ ListIdle
    /\ warnings = 0
    /\ ElemIdle
    /\ \E n \in 1..MaxRuns : \E stretch \in [RunProps -> Stretches(n)], empty \in 0..n :
          /\ \A k \in 1..n : \E q \in RunProps : stretch[q][1] <= k /\ k <= stretch[q][2]
          /\ fmt_parent = [marker |-> FALSE, inherited_style |-> EmptyDict,
                           kids |-> [k \in 1..n |-> StretchRun(stretch, k, empty)]]
    /\ items = << >>
    /\ paragraph_style = << >>
    /\ all_content = << >>
    /\ ranges = << >>
    /\ current_style = << >>
    /\ fmt_pc = <<"start", 0>>
    /\ fmt_result = << >>
    /\ gross_cases = 0

RunsSpec == InitStretches /\ [][FmtNext]_vars

----------------------------------------------------------------------------
(* Properties of the range nesting *)

RECURSIVE Leaves(_, _, _, _)
\* The characters and elements of a content list from child k on, in order,
\* each with the styles of the spans around it (outermost first) and the
\* place of the innermost of them.
Leaves(content, k, styles, path) ==
    IF k > Len(content) THEN << >>
    ELSE LET node == content[k]
             here == IF node[1] = "span"
                     THEN Leaves(node[3], 1, Append(styles, node[2]),
                                 Append(path, k))
                     ELSE [j \in 1..Len(node[3]) |->
                              [unit |-> node[3][j], styles |-> styles,
                               path |-> path]]
         IN  here \o Leaves(content, k + 1, styles, path)

\* the leaves of what rewrite_spans returned
ResultLeaves == Leaves(fmt_result, 1, << >>, << >>)

\* the item a piece of content came from
ItemOf(unit) ==
    CHOOSE k \in 1..Len(items) :
        \E j \in 1..Len(items[k].content) : items[k].content[j][3][1] = unit

\* the active properties of a piece of content: those of its run that the
\* paragraph does not already have with the same value
ActiveProperties(unit) ==
    LET rs == items[ItemOf(unit)].run_style
    IN  [p \in {q \in DOMAIN rs :
                   q \notin DOMAIN paragraph_style \/ paragraph_style[q] # rs[q]}
            |-> rs[p]]

RECURSIVE MergedStyles(_)
\* the union of the property maps of a list of wrappers
MergedStyles(styles) ==
    IF Len(styles) = 0 THEN EmptyDict
    ELSE DictUpdate(styles[1], MergedStyles(Tail(styles)))

\* no property is carried by two of the wrappers
DisjointStyles(styles) ==
    \A a, b \in 1..Len(styles) :
        a # b => DOMAIN styles[a] \cap DOMAIN styles[b] = {}

\* C11: rewrite_spans returns for every paragraph, and for every piece of
\* content of the paragraph, the property maps of the spans around it in the
\* output are disjoint and their union is the active-property map of the
\* piece (the properties of its run that are not the paragraph's own).
C11_WrappersCarryActive ==
    /\ fmt_pc[1] # "AssertionError"
    /\ fmt_pc[1] = "done" =>
          /\ Len(ResultLeaves) = Len(Leaves(all_content, 1, << >>, << >>))
          /\ \A i \in 1..Len(ResultLeaves) :
                /\ DisjointStyles(ResultLeaves[i].styles)
                /\ MergedStyles(ResultLeaves[i].styles)
                       = ActiveProperties(ResultLeaves[i].unit)

\* a paragraph is done where a piece of content sits in a span although a
\* property of its run was dropped because the paragraph has it, and
\* another piece sits in no span
C11_Witness ==
    /\ fmt_pc[1] = "done"
    /\ \E i \in 1..Len(ResultLeaves) :
          /\ Len(ResultLeaves[i].styles) >= 1
          /\ DOMAIN ActiveProperties(ResultLeaves[i].unit)
                 # DOMAIN items[ItemOf(ResultLeaves[i].unit)].run_style
    /\ \E i \in 1..Len(ResultLeaves) : Len(ResultLeaves[i].styles) = 0

\* C12: the output is maximally coalesced: two neighbouring pieces of content
\* with identical active-property maps have the same innermost span around
\* them (no span starts or ends between them).
C12_Coalesced ==
    fmt_pc[1] = "done" =>
        \A i \in 1..(Len(ResultLeaves) - 1) :
            ActiveProperties(ResultLeaves[i].unit)
                    = ActiveProperties(ResultLeaves[i + 1].unit)
                => ResultLeaves[i].path = ResultLeaves[i + 1].path

\* two neighbouring pieces of different runs with the same non-empty active
\* properties are in one span
C12_Witness ==
    /\ fmt_pc[1] = "done"
    /\ \E i \in 1..(Len(ResultLeaves) - 1) :
          /\ ItemOf(ResultLeaves[i].unit) # ItemOf(ResultLeaves[i + 1].unit)
          /\ ActiveProperties(ResultLeaves[i].unit) # EmptyDict
          /\ ActiveProperties(ResultLeaves[i].unit)
                 = ActiveProperties(ResultLeaves[i + 1].unit)
          /\ Len(ResultLeaves[i].path) > 0
          /\ ResultLeaves[i].path = ResultLeaves[i + 1].path

\* the pieces of content of a content list, in order
Units(content) ==
    LET leaves == Leaves(content, 1, << >>, << >>)
    IN  [i \in 1..Len(leaves) |-> leaves[i].unit]

\* C13: build_result emits every piece of all_content exactly once and in
\* the original order, also when ranges straddle: a piece covered by two
\* straddling ranges appears once, inside both spans.
C13_EveryUnitOnce ==
    fmt_pc[1] = "done" => Units(fmt_result) = Units(all_content)

\* two ranges straddled, and a piece of content is inside both spans
C13_Witness ==
    /\ fmt_pc[1] = "done"
    /\ gross_cases > 0
    /\ Len(all_content) >= 3
    /\ \E i \in 2..(Len(ResultLeaves) - 1) :
          /\ Len(ResultLeaves[i].styles) = 2
          /\ Len(ResultLeaves[i - 1].styles) = 1
          /\ Len(ResultLeaves[i + 1].styles) = 1

\* C14: every split of a straddling range is recorded as a diagnostic, and a
\* pass without straddling ranges records none: when rewrite_spans returns,
\* as many warnings were made as ranges were split.
C14_SplitsCounted ==
    fmt_pc[1] = "done" => warnings = gross_cases

----------------------------------------------------------------------------
(* fixup_add_numbering (src/fixups.py): the documents it is given *)

\* the most children the body of a document has
MaxParas == 4

\* the numIds of the document (0 stands for "no numbering")
Instances == {1, 2}

\* the abstractNumIds of the document
AbstractIds == {10, 11}

\* the n-th <p> of the document; its computed -ooxml-numId and -ooxml-ilvl
\* are numid and ilvl
Para(n, numid, ilvl) ==
    [name |-> "p", n |-> n, numid |-> numid, ilvl |-> ilvl, content |-> << >>]

\* a table of one cell that holds one numbered paragraph, the n-th <p>
Table(n) ==
    [name |-> "table", n |-> n, numid |-> 0, ilvl |-> 0,
     content |-> <<[name |-> "td", n |-> n, numid |-> 0, ilvl |-> 0,
                    content |-> <<Para(n, 1, 0)>>]>>]

\* what a child of the body is: a table, a paragraph without numbering, or
\* a paragraph at a level of an instance
Shapes ==
    [table : {TRUE}, numid : {1}, ilvl : {0}]
    \cup [table : {FALSE}, numid : {0}, ilvl : {0}]
    \cup [table : {FALSE}, numid : Instances, ilvl : Ilvls]

\* the n-th child of the body
Child(shape, n) ==
    IF shape.table THEN Table(n) ELSE Para(n, shape.numid, shape.ilvl)

\* for every numId its abstractNumId: the instances share a definition or
\* have one each
Abstracts ==
    {[numid \in Instances |-> 10], [numid \in Instances |-> 9 + numid]}

\* the <body> whose children have the shapes f[1], ..., f[n]
Doc(n, f, abstract) ==
    [name |-> "body", n |-> 0, numid |-> 0, ilvl |-> 0,
     content |-> [k \in 1..n |-> Child(f[k], k)],
     abstract |-> abstract]

\* lvl.start of the levels of a numId: 1, but 3 for level 0 of instance 2
\* (a level override)
Start(numid, ilvl) == IF numid = 2 /\ ilvl = 0 THEN 3 ELSE 1

\* docx.numbering.get_abstract_num_id_and_levels(numid): the id of the
\* abstract definition of the instance, and its levels after the overrides
\* of the instance
get_abstract_num_id_and_levels(d, numid) ==
    <<d.abstract[numid], [l \in 1..NumLevels |-> [start |-> Start(numid, l - 1)]]>>

RECURSIVE map_element(_)
RECURSIVE map_content(_, _)

\* Element.find_replace, map_content: the children are mapped from left to
\* right.  The value is the list of the paragraphs add_numbering is called
\* on, in the order of the calls.
map_content(source, k) ==
    IF k > Len(source) THEN << >>
    ELSE map_element(source[k]) \o map_content(source, k + 1)

\* Element.find_replace, map_element, with the matcher and the replacement
\* of fixup_add_numbering: the content of e is mapped first, and then, when
\* e is a body or a td, fix_body(e2) calls add_numbering on every <p> of its
\* content.
map_element(e) ==
    map_content(e.content, 1)
        \o (IF e.name \in {"body", "td"}
            THEN SelectSeq(e.content, LAMBDA c : c.name = "p")
            ELSE << >>)

\* the state when fixup_add_numbering is called
InitAddNumbering ==
    /\ all_styles = << >>
    /\ heap = << >>
    /\ stack = << >>
    /\ iter = 0
    /\ outcome = "idle"
    /\ LvlIdle
    /\ NumIdle
    /\ FmtIdle
    /\ ListIdle
    /\ warnings = 0
    /\ ElemIdle
    /\ \E n \in 1..MaxParas :
           \E f \in [1..n -> Shapes], abstract \in Abstracts :
               doc = Doc(n, f, abstract)
    /\ numbering_context = [a \in AbstractIds |-> << >>]
    /\ seen_numids = {}
    /\ numbered = << >>
    /\ cnt_pc = "running"

----------------------------------------------------------------------------
(* fixup_add_numbering: add_numbering *)

\* the deeper counters are kept
NotTruncated(current_number, ilvl) == current_number

\* del current_number[ilvl + 1:]
Truncated(current_number, ilvl) == SubSeq(current_number, 1, ilvl + 1)

\* every numId counts as seen
AlwaysSeen(numid, seen) == FALSE

\* numid not in seen_numids
FirstUse(numid, seen) == numid \notin seen

RECURSIVE Pushed(_, _, _)
\* while len(current_number) <= ilvl: current_number.append(lvl.start)
Pushed(current_number, levels, ilvl) ==
    IF Len(current_number) <= ilvl
    THEN Pushed(Append(current_number, levels[Len(current_number) + 1].start),
                levels, ilvl)
    ELSE current_number

\* "Bump the numbering accordingly."
Bumped(current_number, levels, ilvl, numid, seen) ==
    IF Len(current_number) <= ilvl
    THEN Pushed(current_number, levels, ilvl)
    ELSE LET cut == Truncated(current_number, ilvl)
         IN  IF FirstUse(numid, seen)
             THEN [cut EXCEPT ![ilvl + 1] = levels[ilvl + 1].start]
             ELSE [cut EXCEPT ![ilvl + 1] = @ + 1]

\* add_numbering(p), for the next <p> that find_replace and fix_body reach:
\* the counters, and seen_numids.add(numid).  (The marker and the
\* -ooxml-indentation that add_numbering also computes are left out.)
add_numbering ==
    /\ cnt_pc = "running"
    /\ Len(numbered) < Len(map_element(doc))
    /\ LET p == map_element(doc)[Len(numbered) + 1]
           has_numbering == p.numid # 0
           found == get_abstract_num_id_and_levels(doc, p.numid)
           before == numbering_context[found[1]]
           after == Bumped(before, found[2], p.ilvl, p.numid, seen_numids)
       IN  /\ numbering_context' =
                 IF has_numbering
                 THEN [numbering_context EXCEPT ![found[1]] = after]
                 ELSE numbering_context
           /\ numbered' = Append(numbered,
                 [n |-> p.n, numid |-> p.numid, ilvl |-> p.ilvl,
                  seen |-> p.numid \in seen_numids,
                  before |-> IF has_numbering THEN before ELSE << >>,
                  current_number |-> IF has_numbering THEN after ELSE << >>])
           /\ seen_numids' = seen_numids \cup {p.numid}
    /\ UNCHANGED <<doc, cnt_pc, styleVars, lvlVars, numVars, elemVars, fmtVars, listVars,
                   warnings>>

\* doc.find_replace(...) returns
AddNumberingReturn ==
    /\ cnt_pc = "running"
    /\ Len(numbered) = Len(map_element(doc))
    /\ cnt_pc' = "returned"
    /\ UNCHANGED <<doc, numbering_context, seen_numids, numbered, styleVars,
                   lvlVars, numVars, elemVars, fmtVars, listVars, warnings>>

CntNext == add_numbering \/ AddNumberingReturn

CntSpec == InitAddNumbering /\ [][CntNext]_vars

----------------------------------------------------------------------------
(* Properties of the numbering counters *)

\* the counter a handled paragraph observed at its own level
Counter(e) == e.current_number[e.ilvl + 1]

\* the handled paragraphs that have numbering
NumberedItems == {i \in 1..Len(numbered) : numbered[i].numid # 0}

\* the body holds four paragraphs of instance 1, at the levels 0, 0, 1, 0
SequencingExample ==
    /\ Len(doc.content) = 4
    /\ \A k \in 1..4 : doc.content[k].name = "p" /\ doc.content[k].numid = 1
    /\ [k \in 1..4 |-> doc.content[k].ilvl] = <<0, 0, 1, 0>>

\* C15: with the levels [start 1, start 1] and one instance, the items at the
\* levels 0, 0, 1, 0 observe the counters 1, 2, 1, 3.  In general an item at
\* level L of an instance seen before, whose abstract definition has a counter
\* at L, adds one to that counter and cuts off the deeper counters; an item at
\* a level without a counter appends the start value of every missing level
\* up to L.
C15_CounterSequencing ==
    /\ SequencingExample /\ cnt_pc = "returned"
          => [k \in 1..4 |-> Counter(numbered[k])] = <<1, 2, 1, 3>>
    /\ \A i \in NumberedItems :
          LET e == numbered[i]
          IN  /\ e.seen /\ Len(e.before) > e.ilvl
                    => e.current_number
                         = Append(SubSeq(e.before, 1, e.ilvl),
                                  e.before[e.ilvl + 1] + 1)
              /\ Len(e.before) <= e.ilvl
                    => /\ Len(e.current_number) = e.ilvl + 1
                       /\ SubSeq(e.current_number, 1, Len(e.before)) = e.before
                       /\ \A l \in (Len(e.before) + 1)..(e.ilvl + 1) :
                             e.current_number[l] = Start(e.numid, l - 1)

\* the four items of the example were handled, and the last one cut off the
\* counter of level 1
C15_Witness ==
    /\ SequencingExample
    /\ cnt_pc = "returned"
    /\ numbered[4].before = <<2, 1>>
    /\ numbered[4].current_number = <<3>>

\* the first handled paragraph that uses its instance at its level
FirstAtLevel(i) ==
    \A j \in 1..(i - 1) :
        ~(numbered[j].numid = numbered[i].numid /\ numbered[j].ilvl = numbered[i].ilvl)

C17_DocumentOrder ==
    \A i, j \in NumberedItems : i < j => numbered[i].n < numbered[j].n

----------------------------------------------------------------------------
(* fixup_lists (src/fixups.py): the paragraphs fix_body is given *)

\* the most children the body fix_body is called on has
MaxBody == 5

\* left_margin of the List of the body: stands for -1e300, which is less
\* than every indentation
BodyMargin == -1000

\* "treat non-numbered paragraphs as being an additional 36pt to the left"
NonListOffset == 36

\* 3/8 * 72: how much deeper a "nested proc" list is indented
NestedProcIndent == 27

\* the text of a marker: '\t', the number i formatted as decimal,
\* letter or roman and followed by '.\t', or no marker at all
BulletMarker == <<"bullet", 0>>
NumberMarker(formatter, i) == <<formatter, i>>
NoMarker == <<"none", 0>>

\* docx.get_list_style_at_level(numId, ilvl): the levels of instance 2 are
\* bullets, those of the other instances are decimal numbers
get_list_style_at_level(numId, ilvl) ==
    [numFmt |-> IF numId = 2 THEN "bullet" ELSE "decimal"]

\* The children of the body, as fixup_add_numbering left them: name, the
\* -ooxml-numId (0 when there is none), -ooxml-ilvl and -ooxml-indentation
\* (in pt) of the style, and the text of the span.marker.  There are
\* paragraphs without numbering, figures, numbered paragraphs of instance 1
\* at four places and bullet paragraphs of instance 2 at two places.
BodyItems ==
    [name : {"p"}, numId : {0}, ilvl : {0}, margin : {0, 46},
     marker : {NoMarker}]
    \cup [name : {"figure"}, numId : {0}, ilvl : {0}, margin : {0},
          marker : {NoMarker}]
    \cup {[name |-> "p", numId |-> 1, ilvl |-> place[1], margin |-> place[2],
           marker |-> NumberMarker("decimal", 1)] :
             place \in {<<0, 10>>, <<1, 20>>, <<0, 20>>, <<1, 50>>}}
    \cup [name : {"p"}, numId : {2}, ilvl : {0}, margin : {10, 20},
          marker : {BulletMarker}]

\* the places of python lists: result, the content of the <li> made of the
\* n-th child, and the content of the list opened for the n-th child
ResultAddr == <<"result", 0>>
LiAddr(n) == <<"li", n>>
ListAddr(n) == <<"list", n>>
NoAddr == <<"None", 0>>

\* an Element of the output: the n-th child of the body (n = 0 for an <ol>
\* or <ul>), with the place of its content when fix_body appends to it
Elt(name, cls, n, content) ==
    [name |-> name, class |-> cls, n |-> n, content |-> content]

\* List(parent, left_margin, content, numId, ilvl, marker_type); the parent
\* is the frame before it in current.  marker_type is 'bullet' or a depth.
List(left_margin, content, numId, ilvl, marker_type) ==
    [left_margin |-> left_margin, content |-> content, numId |-> numId,
     ilvl |-> ilvl, marker_type |-> marker_type]

\* the state when fix_body is called: result = [] and current is the body
InitLists ==
    /\ all_styles = << >>
    /\ heap = << >>
    /\ stack = << >>
    /\ iter = 0
    /\ outcome = "idle"
    /\ LvlIdle
    /\ NumIdle
    /\ FmtIdle
    /\ CntIdle
    /\ warnings = 0
    /\ ElemIdle
    /\ body = << >>
    /\ lst_result = [a \in {ResultAddr} |-> << >>]
    /\ current = <<List(BodyMargin, ResultAddr, 0, None, <<"None", 0>>)>>
    /\ lst_outcome = "running"

----------------------------------------------------------------------------
(* fixup_lists: fix_body *)

\* the innermost List
Current(cur) == cur[Len(cur)]

\* is_list_item: the paragraph has a numId and a marker that looks like one
is_list_item(p) == p.numId # 0 /\ p.marker # NoMarker

RECURSIVE CloseLists(_, _)
\* while current.left_margin > effective_margin: close_list().  The value
\* is << >> when close_list finds no parent (its assertion fails).
CloseLists(cur, effective_margin) ==
    IF Len(cur) = 0 THEN cur
    ELSE IF Current(cur).left_margin > effective_margin
         THEN CloseLists(SubSeq(cur, 1, Len(cur) - 1), effective_margin)
         ELSE cur

\* e is put in front of the list at addr
Prepended(h, addr, e) == [h EXCEPT ![addr] = <<e>> \o @]

\* h with e appended to the list at addr
Appended(h, addr, e) == [h EXCEPT ![addr] = Append(@, e)]

\* the assertion of append_non_list_item holds: the last child of the
\* current list is an <li>
LastIsLi(h, cur) ==
    /\ Len(h[Current(cur).content]) > 0
    /\ h[Current(cur).content][Len(h[Current(cur).content])].name = "li"

\* e is put into the current list itself
append_to_list(h, cur, e) == Appended(h, Current(cur).content, e)

\* e is put into the deepest last item: when the last item of the current
\* list ends with a nested list, into the last item of that list
append_to_deepest(h, cur, e) ==
    LET lst == h[Current(cur).content]
        li == IF Len(cur) = 1 THEN << >> ELSE h[lst[Len(lst)].content]
    IN  IF Len(cur) = 1 THEN Appended(h, Current(cur).content, e)
        ELSE IF Len(li) > 0 /\ li[Len(li)].name \in {"ol", "ul"}
                /\ Len(h[li[Len(li)].content]) > 0
        THEN LET nested == h[li[Len(li)].content]
             IN  Appended(h, nested[Len(nested)].content, e)
        ELSE Appended(h, lst[Len(lst)].content, e)

\* append_non_list_item(e)
append_non_list_item(h, cur, e) ==
    IF Len(cur) = 1
    THEN Appended(h, Current(cur).content, e)
    ELSE LET lst == h[Current(cur).content]
         IN  Appended(h, lst[Len(lst)].content, e)

\* open_list: the class and the marker_type of the new list
NewList(p, cur) ==
    IF get_list_style_at_level(p.numId, p.ilvl).numFmt = "bullet"
    THEN [name |-> "ul", class |-> "", marker_type |-> <<"bullet", 0>>]
    ELSE IF Len(cur) = 1 \/ Current(cur).marker_type = <<"bullet", 0>>
    THEN [name |-> "ol", class |-> "proc", marker_type |-> <<"depth", 0>>]
    ELSE IF /\ p.margin > Current(cur).left_margin + NestedProcIndent
            /\ p.marker = NumberMarker("decimal", 1)
    THEN [name |-> "ol", class |-> "nested proc", marker_type |-> <<"depth", 0>>]
    ELSE [name |-> "ol", class |-> "block",
          marker_type |-> <<"depth", Current(cur).marker_type[2] + 1>>]

\* the assertions of open_list hold
OpenListAsserts(p, cur) ==
    /\ p.margin >= Current(cur).left_margin
    /\ (/\ get_list_style_at_level(p.numId, p.ilvl).numFmt # "bullet"
        /\ p.margin > Current(cur).left_margin
        /\ p.numId = Current(cur).numId)
          => p.ilvl > Current(cur).ilvl

\* a list is opened for p: it is indented more than the current list, or
\* (the hack) it has another marker than a bullet and the current list, at
\* the same indentation, is a bullet list
OpensList(p, cur) ==
    \/ p.margin > Current(cur).left_margin
    \/ /\ Current(cur).marker_type = <<"bullet", 0>>
       /\ p.marker # BulletMarker

\* the marker HTML will show for the i-th item of a list
HtmlMarker(marker_type, i) ==
    IF marker_type = <<"bullet", 0>> THEN BulletMarker
    ELSE NumberMarker(<<"decimal", "letter", "roman">>[(marker_type[2] % 3) + 1], i)

\* int_to_lower_letter knows the letters up to "aa", the 27th
LastLetter == 27

\* int_to_lower_roman takes the numbers from 1 to 3999
LastRoman == 3999

\* int_to_lower_letter(i), int_to_lower_roman(i) raise ValueError
FormatterRaises(marker_type, i) ==
    /\ marker_type # <<"bullet", 0>>
    /\ \/ marker_type[2] % 3 = 1 /\ i > LastLetter
       \/ marker_type[2] % 3 = 2 /\ (i < 1 \/ i > LastRoman)

\* what a failed assertion leaves
Aborted == [ok |-> FALSE, error |-> "AssertionError", heap |-> << >>,
            current |-> << >>, warn |-> 0]

\* the body of "for i, p in enumerate(body.content)" for a p that is not a
\* list item, after the lists were closed: append_non_list_item(p)
NonListItem(h, cur, p, n) ==
    IF Len(cur) > 1 /\ ~LastIsLi(h, cur) THEN Aborted
    ELSE [ok |-> TRUE, error |-> "", current |-> cur, warn |-> 0,
          heap |-> append_non_list_item(h, cur, Elt(p.name, "", n, NoAddr))]

\* the same for a list item: open_list where needed, the <li> made of p
\* appended to the current list, and, when check is TRUE, the check of the
\* marker.  marker_formatter(i) may raise ValueError, after the <li> was
\* appended.
ListItemChecked(h, cur, p, n, check) ==
    LET opens == OpensList(p, cur)
        new == NewList(p, cur)
        lst == Elt(new.name, new.class, 0, ListAddr(n))
        h1 == IF opens
              THEN append_non_list_item(h @@ (ListAddr(n) :> << >>), cur, lst)
              ELSE h
        cur1 == IF opens
                THEN Append(cur, List(p.margin, ListAddr(n), p.numId, p.ilvl,
                                      new.marker_type))
                ELSE cur
        h2 == Appended(h1 @@ (LiAddr(n) :> << >>), Current(cur1).content,
                       Elt("li", "", n, LiAddr(n)))
        i == Len(h2[Current(cur1).content])
    IN  IF opens /\ ~(OpenListAsserts(p, cur) /\ (Len(cur) > 1 => LastIsLi(h, cur)))
        THEN Aborted
        ELSE IF p.margin # Current(cur1).left_margin THEN Aborted
        ELSE IF check /\ FormatterRaises(Current(cur1).marker_type, i)
        THEN [ok |-> FALSE, error |-> "ValueError", current |-> cur1,
              heap |-> h2, warn |-> 0]
        ELSE [ok |-> TRUE, error |-> "", current |-> cur1, heap |-> h2,
              warn |-> IF check /\ HtmlMarker(Current(cur1).marker_type, i) # p.marker
                       THEN 1 ELSE 0]

\* a list item in fix_body: the marker is checked
ListItem(h, cur, p, n) == ListItemChecked(h, cur, p, n, TRUE)

\* the indentation is taken as it is
MarginItself(p) == p.margin

\* effective_margin: 36pt less than the indentation for what is no list item
EffectiveMargin(p) ==
    IF is_list_item(p) THEN p.margin ELSE p.margin - NonListOffset

\* one turn of "for i, p in enumerate(body.content)", with the check of
\* the marker or without it
TurnChecked(h, cur, p, n, check) ==
    LET closed == IF p.name # "figure" THEN CloseLists(cur, EffectiveMargin(p))
                  ELSE cur
    IN  IF Len(closed) = 0 THEN Aborted
        ELSE IF is_list_item(p) THEN ListItemChecked(h, closed, p, n, check)
        ELSE NonListItem(h, closed, p, n)

\* one turn of "for i, p in enumerate(body.content)"
Turn(h, cur, p, n) == TurnChecked(h, cur, p, n, TRUE)

\* the loop takes the next child of the body and handles it
FixBodyItem(p) ==
    LET turn == Turn(lst_result, current, p, Len(body) + 1)
    IN  /\ turn.ok
        /\ body' = Append(body, p)
        /\ lst_result' = turn.heap
        /\ current' = turn.current
        /\ warnings' = warnings + turn.warn
        /\ UNCHANGED <<lst_outcome, styleVars, lvlVars, numVars, elemVars, fmtVars, cntVars>>

\* the loop takes the next child of the body and an assertion fails, or
\* the formatter of the marker raises ValueError: the lists are left as
\* they were when the exception was raised
FixBodyRaises(p) ==
    LET turn == Turn(lst_result, current, p, Len(body) + 1)
    IN  /\ ~turn.ok
        /\ body' = Append(body, p)
        /\ lst_outcome' = turn.error
        /\ lst_result' = IF turn.error = "ValueError" THEN turn.heap ELSE lst_result
        /\ current' = IF turn.error = "ValueError" THEN turn.current ELSE current
        /\ UNCHANGED <<warnings, styleVars, lvlVars, numVars, elemVars, fmtVars, cntVars>>

\* the body has no more children: return [body.with_content(result)]
FixBodyReturn ==
    /\ lst_outcome = "running"
    /\ lst_outcome' = "returned"
    /\ UNCHANGED <<body, lst_result, current, warnings, styleVars, lvlVars,
                   numVars, elemVars, fmtVars, cntVars>>

\* the loop goes on
MoreItems == lst_outcome = "running" /\ Len(body) < MaxBody

ListNext ==
    \/ (MoreItems /\ \E p \in BodyItems : FixBodyItem(p))
    \/ (MoreItems /\ \E p \in BodyItems : FixBodyRaises(p))
    \/ FixBodyReturn

ListSpec == InitLists /\ [][ListNext]_vars

----------------------------------------------------------------------------
(* fixup_lists: fix_body on a long list *)

\* the most children the body of a long list has
MaxLong == 30

\* the children of the body: items of level 0 of instance 1 at 10pt, and
\* items of level 1 at 20pt, with the markers Word gave them
LongItems ==
    {[name |-> "p", numId |-> 1, ilvl |-> 0, margin |-> 10,
      marker |-> NumberMarker("decimal", 1)],
     [name |-> "p", numId |-> 1, ilvl |-> 1, margin |-> 20,
      marker |-> NumberMarker("letter", 1)]}

\* the body is one list whose last item has a long nested list: after an
\* item of level 1 come items of level 1
LongList(p) ==
    /\ Len(body) = 0 => p.ilvl = 0
    /\ Len(body) > 0 => p.ilvl >= body[Len(body)].ilvl

\* the loop goes on
MoreLongItems == lst_outcome = "running" /\ Len(body) < MaxLong

LongNext ==
    \/ (MoreLongItems /\ \E p \in LongItems : LongList(p) /\ FixBodyItem(p))
    \/ (MoreLongItems /\ \E p \in LongItems : LongList(p) /\ FixBodyRaises(p))
    \/ FixBodyReturn

LongSpec == InitLists /\ [][LongNext]_vars

----------------------------------------------------------------------------
(* Properties of the list inference *)

RECURSIVE Tree(_, _)
\* the elements of the python list at addr, each with its children
Tree(h, addr) ==
    [k \in 1..Len(h[addr]) |->
        <<h[addr][k].name, h[addr][k].n,
          IF h[addr][k].content = NoAddr THEN << >>
          ELSE Tree(h, h[addr][k].content)>>]

\* the items of the example: not a list item at 0pt, list items of level 0
\* at 10pt twice, a list item of level 1 at 20pt, not a list item at 0pt
InferenceExample ==
    <<[name |-> "p", numId |-> 0, ilvl |-> 0, margin |-> 0, marker |-> NoMarker],
      [name |-> "p", numId |-> 1, ilvl |-> 0, margin |-> 10,
       marker |-> NumberMarker("decimal", 1)],
      [name |-> "p", numId |-> 1, ilvl |-> 0, margin |-> 10,
       marker |-> NumberMarker("decimal", 1)],
      [name |-> "p", numId |-> 1, ilvl |-> 1, margin |-> 20,
       marker |-> NumberMarker("decimal", 1)],
      [name |-> "p", numId |-> 0, ilvl |-> 0, margin |-> 0, marker |-> NoMarker]>>

\* [passthrough, ol[item, item[ol[item]]], passthrough]
InferenceExampleTree ==
    <<<<"p", 1, << >>>>,
      <<"ol", 0, <<<<"li", 2, << >>>>,
                   <<"li", 3, <<<<"ol", 0, <<<<"li", 4, << >>>>>>>>>>>>>>>>,
      <<"p", 5, << >>>>>>

\* the example gives the tree of the claim
ExampleInferred ==
    body = InferenceExample => Tree(lst_result, ResultAddr) = InferenceExampleTree

\* the child the loop has just taken, and its number
NewItem == body'[Len(body')]
NewN == Len(body')

\* the open frames whose threshold does not exceed the margin, in order
NotDeeper(margin) == SelectSeq(current, LAMBDA f : f.left_margin <= margin)

\* the last element of the python list at addr
Last(h, addr) == h[addr][Len(h[addr])]

\* the <li> of the new item was appended to the list of frame f
SiblingIn(f) ==
    /\ lst_result'[f.content]
           = Append(lst_result[f.content], Elt("li", "", NewN, LiAddr(NewN)))
    /\ \A a \in DOMAIN lst_result \ {f.content} : lst_result'[a] = lst_result[a]

\* a new container that holds only the <li> of the new item was placed
\* inside the last item of the list of frame f, or, when f is the body, at
\* the end of the result
OpenedIn(f, atRoot) ==
    LET into == IF atRoot THEN ResultAddr ELSE Last(lst_result, f.content).content
    IN  /\ Len(lst_result'[into]) = Len(lst_result[into]) + 1
        /\ Last(lst_result', into).name \in {"ol", "ul"}
        /\ Last(lst_result', into).content = ListAddr(NewN)
        /\ lst_result'[ListAddr(NewN)] = <<Elt("li", "", NewN, LiAddr(NewN))>>
        /\ Current(current').content = ListAddr(NewN)
        /\ \A a \in DOMAIN lst_result \ {into} : lst_result'[a] = lst_result[a]

\* C18 as stated, the general rule: a list item with the indentation of the
\* current container becomes a sibling in that container, and a list item
\* indented more opens a new container inside its last item.
ListItemRule ==
    (body' # body /\ is_list_item(NewItem)) =>
        LET kept == NotDeeper(NewItem.margin)
            top == Current(kept)
        IN  /\ lst_outcome' = "running"
            /\ top.left_margin = NewItem.margin => SiblingIn(top)
            /\ top.left_margin < NewItem.margin => OpenedIn(top, Len(kept) = 1)

UnindentedNested(top, p) ==
    /\ top.left_margin = p.margin
    /\ top.marker_type = <<"bullet", 0>>
    /\ p.marker # BulletMarker

\* the case open_list rejects: a numbered item indented more than the
\* current container, of the same instance, at a level that is not greater
SameInstanceNotDeeper(top, p) ==
    /\ top.left_margin < p.margin
    /\ get_list_style_at_level(p.numId, p.ilvl).numFmt # "bullet"
    /\ p.numId = top.numId
    /\ p.ilvl <= top.ilvl

\* the amended general rule
ListItemRuleAmended ==
    (body' # body /\ is_list_item(NewItem)) =>
        LET kept == NotDeeper(NewItem.margin)
            top == Current(kept)
        IN  IF SameInstanceNotDeeper(top, NewItem)
            THEN lst_outcome' = "AssertionError" /\ lst_result' = lst_result
            ELSE /\ lst_outcome' = "running"
                 /\ IF top.left_margin = NewItem.margin
                       /\ ~UnindentedNested(top, NewItem)
                    THEN SiblingIn(top)
                    ELSE OpenedIn(top, Len(kept) = 1)

NonListItemRule ==
    (body' # body /\ ~is_list_item(NewItem) /\ NewItem.name # "figure") =>
        LET kept == NotDeeper(NewItem.margin - 36)
            into == IF Len(kept) = 1 THEN ResultAddr
                    ELSE Last(lst_result, Current(kept).content).content
        IN  /\ lst_outcome' = "running"
            /\ current' = kept
            /\ lst_result'[into]
                   = Append(lst_result[into], Elt("p", "", NewN, NoAddr))
            /\ \A a \in DOMAIN lst_result \ {into} : lst_result'[a] = lst_result[a]
            /\ DOMAIN lst_result' = DOMAIN lst_result

C19_NonListItems == [][NonListItemRule]_vars

\* a paragraph that is no list item closed a nested container and went
\* into the last item of the container that stayed open, behind the nested
\* container
C19_Witness ==
    /\ Len(current) = 2
    /\ Len(body) > 0
    /\ ~is_list_item(body[Len(body)])
    /\ LET li == lst_result[Last(lst_result, Current(current).content).content]
       IN  /\ Len(li) >= 2
           /\ li[Len(li)].n = Len(body)
           /\ li[Len(li) - 1].name \in {"ol", "ul"}

\* the element whose content is the python list at addr
Owner(addr) ==
    CHOOSE e \in UNION {{lst_result[a][k] : k \in 1..Len(lst_result[a])} :
                           a \in DOMAIN lst_result} : e.content = addr

\* the n-th child of the body is a bullet item: its level is a bullet level
IsBulletItem(n) ==
    get_list_style_at_level(body[n].numId, body[n].ilvl).numFmt = "bullet"

\* C20: no container mixes kinds: every item directly inside a <ul> is a
\* bullet item, and every item directly inside an <ol> is none.
C20_NoMixedContainers ==
    \A a \in DOMAIN lst_result :
        a[1] = "list" =>
            \A k \in 1..Len(lst_result[a]) :
                IsBulletItem(lst_result[a][k].n) <=> Owner(a).name = "ul"

RECURSIVE Under(_, _)
\* the python lists nested in the list at addr, that list included
Under(h, addr) ==
    {addr} \cup UNION {Under(h, h[addr][k].content) :
                          k \in {j \in 1..Len(h[addr]) : h[addr][j].content # NoAddr}}

\* the python lists that are the content of an open frame
OpenAddrs(cur) == {cur[k].content : k \in 1..Len(cur)}

\* the content of the closed containers (the <ol> and <ul> that are not in
\* the stack any more) and everything nested in them
ClosedAddrs ==
    UNION {Under(lst_result, a) :
             a \in {b \in DOMAIN lst_result : b[1] = "list" /\ b \notin OpenAddrs(current)}}

\* the frames open before and after the step
StillOpen == {f \in {current[k] : k \in 1..Len(current)} :
                 f.content \in OpenAddrs(current')}

\* a step changes nothing in a closed container; what it changes is the
\* content of a container still open or of the last item of one
ClosedUnchanged ==
    /\ \A a \in ClosedAddrs : lst_result'[a] = lst_result[a]
    /\ \A a \in DOMAIN lst_result :
           lst_result'[a] # lst_result[a] =>
               \E f \in StillOpen :
                   \/ a = f.content
                   \/ /\ Len(lst_result[f.content]) > 0
                      /\ a = Last(lst_result, f.content).content

\* C21: once a container has been closed, the container and everything
\* nested in it are never changed by a later item: later items are only
\* appended to containers still open or to the last item of such a container.
C21_ClosedNeverChanged == [][ClosedUnchanged]_vars

\* a nested container was closed, and after it an item was placed behind it
\* in the item that holds it
C21_Witness ==
    /\ lst_outcome = "running"
    /\ Len(current) = 2
    /\ \E n \in 1..Len(body) :
           /\ ListAddr(n) \in DOMAIN lst_result
           /\ ListAddr(n) \notin OpenAddrs(current)
           /\ Len(lst_result[ListAddr(n)]) >= 2
           /\ LET li == lst_result[Last(lst_result, Current(current).content).content]
              IN  /\ Len(li) >= 2
                  /\ li[Len(li) - 1].content = ListAddr(n)
                  /\ li[Len(li)].n = Len(body)

\* the item the loop has just taken was handled as fix_body without the
\* check of the marker handles it
AsUnchecked ==
    body' # body =>
        LET turn == TurnChecked(lst_result, current, NewItem, NewN, FALSE)
        IN  IF turn.ok
            THEN /\ lst_outcome' = "running"
                 /\ lst_result' = turn.heap
                 /\ current' = turn.current
            ELSE lst_outcome' = turn.error

\* C22: a disagreement between the marker made for a list item and the
\* marker of the source is only reported: whatever the number of items of a
\* container and its depth, the check of the marker never aborts the pass,
\* and the lists are the same as if the check were not made.
C22_MarkerCheckOnlyReports ==
    [](lst_outcome # "ValueError") /\ [][AsUnchecked]_vars

----------------------------------------------------------------------------
(* parse_pr and parse_style (src/docx.py) *)

\* the most children a <w:pPr> or <w:rPr> has
MaxPr == 2

\* an element with a w:val or w:fill attribute, or with children
PrElem(name, val, kids) == [name |-> name, val |-> val, kids |-> kids]

\* The children of a property element: <w:b w:val=.../>, <w:shd
\* w:val="clear" w:fill=.../> and an <w:rPr> with one such child.  (No
\* child is a <w:vertAlign>, so that parse_pr leaves font-size alone.)
PrLeaves ==
    {PrElem("b", v, << >>) : v \in {"0", "1"}}
        \cup {PrElem("shd", fill, << >>) : fill \in {"FF0000", "00FF00"}}

PrKids ==
    PrLeaves \cup {PrElem("rPr", "", <<PrElem("b", "1", << >>)>>),
                   PrElem("rPr", "", <<PrElem("shd", "00FF00", << >>)>>)}

\* the <w:pPr> or <w:rPr> of a style: absent (e.find gives None) or its
\* children
PrElems ==
    {[present |-> FALSE, kids |-> << >>]}
        \cup {[present |-> TRUE, kids |-> kids] :
                 kids \in UNION {[1..n -> PrKids] : n \in 0..MaxPr}}

\* parse_color(s): '#' + s for six hex digits
parse_color(s) ==
    CASE s = "FF0000" -> "#FF0000"
      [] s = "00FF00" -> "#00FF00"
      [] OTHER -> "None"

\* put(k, v) of parse_pr: an Exception when pr has k with another value.
\* acc.ok is FALSE once the Exception was raised.
Put(acc, k, v) ==
    IF ~acc.ok THEN acc
    ELSE IF k \in DOMAIN acc.pr /\ acc.pr[k] # v
    THEN [ok |-> FALSE, pr |-> acc.pr]
    ELSE [ok |-> TRUE, pr |-> DictUpdate(acc.pr, [x \in {k} |-> v])]

RECURSIVE PutAll(_, _, _)
\* "for k, v in parse_pr(k).items(): ... put(k, v)" for the keys in todo,
\* which leaves out background-color and @cls
PutAll(acc, inner, todo) ==
    IF todo = {} THEN acc
    ELSE LET k == CHOOSE x \in todo : TRUE
         IN  PutAll(Put(acc, k, inner[k]), inner, todo \ {k})

RECURSIVE parse_pr(_, _)
RECURSIVE ParseKids(_, _, _, _)

\* the body of "for k in e" for the child kids[i] and those after it
ParseKids(tag, kids, i, acc) ==
    IF i > Len(kids) \/ ~acc.ok THEN acc
    ELSE LET k == kids[i]
             next ==
                 CASE k.name = "b" ->
                        IF k.val = "1" THEN Put(acc, "font-weight", "bold")
                        ELSE IF k.val = "0" THEN Put(acc, "font-weight", "normal")
                        ELSE acc
                   [] k.name = "shd" ->
                        IF parse_color(k.val) # "None"
                        THEN Put(acc, "background-color", parse_color(k.val))
                        ELSE acc
                   [] k.name = "rPr" ->
                        IF tag = "pPr" THEN acc
                        ELSE LET inner == parse_pr("rPr", k.kids)
                             IN  IF ~inner.ok THEN [ok |-> FALSE, pr |-> acc.pr]
                                 ELSE PutAll(acc, inner.pr,
                                             DOMAIN inner.pr
                                                 \ {"background-color", "@cls"})
                   [] OTHER -> acc
         IN  ParseKids(tag, kids, i + 1, next)

\* parse_pr(e) for the element e with the given tag and children: the dict
\* pr, or ok = FALSE when put raised the Exception
parse_pr(tag, kids) ==
    ParseKids(tag, kids, 1, [ok |-> TRUE, pr |-> EmptyDict])

\* the state when parse_style is called: s = Style(...), s.style = {}
InitParseStyle ==
    /\ all_styles = << >>
    /\ heap = << >>
    /\ stack = << >>
    /\ iter = 0
    /\ outcome = "idle"
    /\ LvlIdle
    /\ NumIdle
    /\ FmtIdle
    /\ CntIdle
    /\ ListIdle
    /\ warnings = 0
    /\ FrIdle
    /\ style_elt \in [pPr : PrElems, rPr : PrElems]
    /\ s_style = EmptyDict
    /\ pr_pc = "pPr"

\* the element parse_style is about to read
PrPart == IF pr_pc = "pPr" THEN style_elt.pPr ELSE style_elt.rPr

\* pPr = e.find(k_pPr); if pPr is not None: s.style.update(parse_pr(pPr))
ParsePPr ==
    /\ pr_pc = "pPr"
    /\ style_elt.pPr.present => parse_pr("pPr", style_elt.pPr.kids).ok
    /\ s_style' = IF ~style_elt.pPr.present THEN s_style
                  ELSE DictUpdate(s_style, parse_pr("pPr", style_elt.pPr.kids).pr)
    /\ pr_pc' = "rPr"
    /\ UNCHANGED <<style_elt, frVars, styleVars, lvlVars, numVars, fmtVars,
                   cntVars, listVars, warnings>>

\* rPr = e.find(k_rPr); if rPr is not None: s.style.update(parse_pr(rPr));
\* return s
ParseRPr ==
    /\ pr_pc = "rPr"
    /\ style_elt.rPr.present => parse_pr("rPr", style_elt.rPr.kids).ok
    /\ s_style' = IF ~style_elt.rPr.present THEN s_style
                  ELSE DictUpdate(s_style, parse_pr("rPr", style_elt.rPr.kids).pr)
    /\ pr_pc' = "returned"
    /\ UNCHANGED <<style_elt, frVars, styleVars, lvlVars, numVars, fmtVars,
                   cntVars, listVars, warnings>>

\* parse_pr raises the Exception of put: parse_style returns no Style
ParseStyleRaises ==
    /\ pr_pc \in {"pPr", "rPr"}
    /\ PrPart.present
    /\ ~parse_pr(pr_pc, PrPart.kids).ok
    /\ pr_pc' = "Exception"
    /\ s_style' = << >>
    /\ UNCHANGED <<style_elt, frVars, styleVars, lvlVars, numVars, fmtVars,
                   cntVars, listVars, warnings>>

PrNext == ParsePPr \/ ParseRPr \/ ParseStyleRaises

PrSpec == InitParseStyle /\ [][PrNext]_vars

----------------------------------------------------------------------------
(* Properties of parse_pr and parse_style *)

\* the property a <w:b> or <w:shd> declares
Declared(k) ==
    IF k.name = "b"
    THEN {<<"font-weight", IF k.val = "1" THEN "bold" ELSE "normal">>}
    ELSE {<<"background-color", parse_color(k.val)>>}

\* what a property element declares: what its children declare, and, for
\* an <w:rPr>, what the children of an <w:rPr> inside it declare (the
\* <w:rPr> inside a <w:pPr> is for the paragraph mark)
Declares(tag, kids) ==
    UNION {IF kids[i].name # "rPr" THEN Declared(kids[i])
           ELSE IF tag = "pPr" THEN {}
           ELSE UNION {Declared(kids[i].kids[j]) : j \in 1..Len(kids[i].kids)} :
             i \in 1..Len(kids)}

\* the style declares a key twice with different values
Conflicting(decls) ==
    \E d1, d2 \in decls : d1[1] = d2[1] /\ d1[2] # d2[2]

\* what the <w:style> declares, in its <w:pPr> and its <w:rPr>
StyleDeclares ==
    Declares("pPr", style_elt.pPr.kids) \cup Declares("rPr", style_elt.rPr.kids)

\* C23: whenever one element (a property element, or a style whose
\* paragraph and run properties are merged by parse_style) declares the
\* same key twice with different values, the duplicate-property error is
\* raised and no property map is produced; declaring the same key twice
\* with the same value is accepted.
C23_DuplicateIsFatal ==
    /\ pr_pc = "returned" => ~Conflicting(StyleDeclares)
    /\ pr_pc = "Exception" => Conflicting(StyleDeclares) /\ s_style = << >>

----------------------------------------------------------------------------
(* Element.find_replace (src/htmodel.py) *)

\* the most nodes (elements and strings) the tree has
MaxNodes == 4

\* an item of a content list: a string, or the address of an Element
StrItem(text) == <<"str", text, 0>>
EltItem(addr) == <<"elt", addr[1], addr[2]>>
AddrOf(item) == <<item[2], item[3]>>

\* the Elements of the tree find_replace is called on, the copies
\* e.with_content(...) makes of them, and the Elements replacement makes
SrcAddr(i) == <<"src", i>>
CopyAddr(i) == <<"copy", i>>
NewAddr(i) == <<"new", i>>

\* the text of the string that is node i
Text(i) == <<"t1", "t2", "t3", "t4", "t5">>[i]

\* the trees: node 1 is the root, the parent of a node is an earlier node
\* and an Element, and a node is an Element or a string
TreeShapes(n) ==
    {sh \in [parent : [2..n -> 1..n], str : SUBSET (2..n)] :
        \A i \in 2..n : sh.parent[i] < i /\ sh.parent[i] \notin sh.str}

\* the content of the Element that is node i
ContentOf(sh, n, i) ==
    LET kids == {j \in 2..n : sh.parent[j] = i}
        RECURSIVE upto(_)
        upto(j) == IF j > n THEN << >>
                   ELSE (IF j \in kids
                         THEN <<IF j \in sh.str THEN StrItem(Text(j))
                                ELSE EltItem(SrcAddr(j))>>
                         ELSE << >>) \o upto(j + 1)
    IN  upto(2)

\* Element(name, attrs, style, content)
Element(name, content) == [name |-> name, content |-> content]

\* the heap that holds the tree
TreeHeap(sh, n) ==
    [a \in {SrcAddr(i) : i \in (1..n) \ sh.str} |->
        Element("div", ContentOf(sh, n, a[2]))]

\* what replacement(e2) returns: nothing, the content of e2, e2 itself, a
\* new <span> around e2, or a string
Replacements == {"drop", "unwrap", "keep", "wrap", "text"}

\* the state when find_replace is called on the root
InitFindReplace ==
    /\ all_styles = << >>
    /\ heap = << >>
    /\ stack = << >>
    /\ iter = 0
    /\ outcome = "idle"
    /\ LvlIdle
    /\ NumIdle
    /\ FmtIdle
    /\ CntIdle
    /\ ListIdle
    /\ warnings = 0
    /\ PrIdle
    /\ \E n \in 1..MaxNodes : \E sh \in TreeShapes(n) :
          /\ fr_heap = TreeHeap(sh, n)
          /\ fr_matcher \in [DOMAIN TreeHeap(sh, n) -> {"True", "False", "None"}]
    /\ fr_replacement \in Replacements
    /\ fr_result = 0
    /\ fr_outcome = "called"

\* list(replacement(e2)): the content list, and the heap with the Element
\* replacement has made
Replacement(h, r, e2) ==
    CASE r = "drop" -> [heap |-> h, seq |-> << >>]
      [] r = "unwrap" -> [heap |-> h, seq |-> h[e2].content]
      [] r = "keep" -> [heap |-> h, seq |-> <<EltItem(e2)>>]
      [] r = "wrap" ->
            [heap |-> h @@ (NewAddr(e2[2]) :> Element("span", <<EltItem(e2)>>)),
             seq |-> <<EltItem(NewAddr(e2[2]))>>]
      [] OTHER -> [heap |-> h, seq |-> <<StrItem("x")>>]

\* a child counts as changed when another number of items stands for it
LengthChanged(seq, child) == Len(seq) # 1

\* seq != [child]
Changed(seq, child) == seq # <<child>>

RECURSIVE MapElement(_, _, _, _)
RECURSIVE MapContent(_, _, _, _, _, _)

\* map_content(source), from the k-th child on: acc holds the heap, result
\* and changed.  The value has same = TRUE when source itself is returned.
MapContent(h, m, r, source, k, acc) ==
    IF k > Len(source)
    THEN [heap |-> acc.heap,
          content |-> IF acc.changed THEN acc.result ELSE source,
          same |-> ~acc.changed]
    ELSE LET child == source[k]
         IN  IF child[1] = "str"
             THEN MapContent(h, m, r, source, k + 1,
                             [acc EXCEPT !.result = Append(@, child)])
             ELSE LET me == MapElement(acc.heap, m, r, AddrOf(child))
                  IN  MapContent(h, m, r, source, k + 1,
                                 [heap |-> me.heap,
                                  result |-> acc.result \o me.seq,
                                  changed |-> acc.changed \/ Changed(me.seq, child)])

\* map_element(e) for the Element at address e
MapElement(h, m, r, e) ==
    IF m[e] = "None" THEN [heap |-> h, seq |-> <<EltItem(e)>>]
    ELSE LET mc == MapContent(h, m, r, h[e].content, 1,
                              [heap |-> h, result |-> << >>, changed |-> FALSE])
             e2 == IF mc.same THEN e ELSE CopyAddr(e[2])
             h2 == IF mc.same THEN mc.heap
                   ELSE mc.heap @@ (e2 :> Element(h[e].name, mc.content))
         IN  IF m[e] = "True" THEN Replacement(h2, r, e2)
             ELSE [heap |-> h2, seq |-> <<EltItem(e2)>>]

\* result_content = map_element(self)
ResultContent == MapElement(fr_heap, fr_matcher, fr_replacement, SrcAddr(1))

\* the root was replaced by exactly one Element
OneElement(seq) == Len(seq) = 1 /\ seq[1][1] = "elt"

\* find_replace returns result_elt
FindReplaceReturn ==
    /\ fr_outcome = "called"
    /\ OneElement(ResultContent.seq)
    /\ fr_heap' = ResultContent.heap
    /\ fr_result' = AddrOf(ResultContent.seq[1])
    /\ fr_outcome' = "returned"
    /\ UNCHANGED <<fr_matcher, fr_replacement, prVars, styleVars, lvlVars,
                   numVars, fmtVars, cntVars, listVars, warnings>>

\* find_replace raises ValueError: the root was replaced by no Element, by
\* several pieces of content, or by a string
FindReplaceRaises ==
    /\ fr_outcome = "called"
    /\ ~OneElement(ResultContent.seq)
    /\ fr_heap' = ResultContent.heap
    /\ fr_outcome' = "ValueError"
    /\ UNCHANGED <<fr_result, fr_matcher, fr_replacement, prVars, styleVars,
                   lvlVars, numVars, fmtVars, cntVars, listVars, warnings>>

FrNext == FindReplaceReturn \/ FindReplaceRaises

FrSpec == InitFindReplace /\ [][FrNext]_vars

----------------------------------------------------------------------------
(* Properties of find_replace *)

RECURSIVE Value(_, _)
\* the tree under an item, as a value: the text of a string, or the name
\* of an Element and the values of its content
Value(h, item) ==
    IF item[1] = "str" THEN <<item[2], << >>>>
    ELSE <<h[AddrOf(item)].name,
           [k \in 1..Len(h[AddrOf(item)].content) |->
               Value(h, h[AddrOf(item)].content[k])]>>

\* the content list replacement gives for the Element with the value e
Replaced(r, e) ==
    CASE r = "drop" -> << >>
      [] r = "unwrap" -> e[2]
      [] r = "keep" -> <<e>>
      [] r = "wrap" -> <<<<"span", <<e>>>>>>
      [] OTHER -> <<<<"x", << >>>>>>

RECURSIVE Rewritten(_)
RECURSIVE RewrittenContent(_, _)

\* what stands for the items of a content list from the k-th on
RewrittenContent(source, k) ==
    IF k > Len(source) THEN << >>
    ELSE Rewritten(source[k]) \o RewrittenContent(source, k + 1)

\* What stands for an item of the tree find_replace was called on: a
\* string stays; an Element for which matcher gives None stays as it is;
\* one for which it gives False stays with its content rewritten; one for
\* which it gives True is replaced by replacement(e'), e' being the Element
\* with its content rewritten.
Rewritten(item) ==
    IF item[1] = "str" \/ fr_matcher[AddrOf(item)] = "None"
    THEN <<Value(fr_heap, item)>>
    ELSE LET e == <<fr_heap[AddrOf(item)].name,
                    RewrittenContent(fr_heap[AddrOf(item)].content, 1)>>
         IN  IF fr_matcher[AddrOf(item)] = "True"
             THEN Replaced(fr_replacement, e)
             ELSE <<e>>

\* the root stands for itself or is replaced by one Element
RootStays ==
    /\ Len(Rewritten(EltItem(SrcAddr(1)))) = 1
    /\ Rewritten(EltItem(SrcAddr(1)))[1][1] \in {"div", "span"}

\* find_replace returned the rewritten tree
ReturnedRewritten ==
    /\ fr_outcome = "returned"
    /\ <<Value(fr_heap, EltItem(fr_result))>> = Rewritten(EltItem(SrcAddr(1)))

\* the Elements that exist are left as they are
Unmodified == \A a \in DOMAIN fr_heap : fr_heap'[a] = fr_heap[a]

\* C24 as stated: find_replace returns a tree in which every Element with
\* matcher True is replaced by replacement(e'), every Element with matcher
\* False is kept with its descendants rewritten, every Element with matcher
\* None is kept with its subtree unchanged; and the tree it was called on is
\* left unmodified.
C24_FindReplace ==
    [](fr_outcome # "called" => ReturnedRewritten) /\ [][Unmodified]_vars

\* C24 amended: find_replace returns that tree, and leaves the tree it was
\* called on unmodified, unless matcher is True for the root and
\* replacement does not give exactly one Element for it: then it raises
\* ValueError.
C24_FindReplaceAmended ==
    /\ [](fr_outcome # "called" =>
            IF RootStays THEN ReturnedRewritten ELSE fr_outcome = "ValueError")
    /\ [][Unmodified]_vars

\* find_replace returned a tree in which an Element was replaced whose own
\* content had been rewritten, under a root that was kept
C24_Witness ==
    /\ fr_outcome = "returned"
    /\ fr_matcher[SrcAddr(1)] = "False"
    /\ fr_replacement = "wrap"
    /\ \E a, b \in DOMAIN fr_matcher :
          /\ fr_matcher[a] = "True"
          /\ fr_matcher[b] = "True"
          /\ EltItem(b) \in {fr_heap[a].content[k] : k \in 1..Len(fr_heap[a].content)}
    /\ fr_result = CopyAddr(1)

----------------------------------------------------------------------------
(* Properties of build_result *)

\* the value ranges had whenever build_result took ranges[0]
Heads ==
    build_result(all_content, SortedRanges(ranges, DOMAIN ranges), 0,
                 Len(all_content)).heads

\* the range a lies in the range b and is not as wide
StrictlyContained(a, b) ==
    /\ b[1] <= a[1]
    /\ a[2] <= b[2]
    /\ <<a[1], a[2]>> # <<b[1], b[2]>>

\* C25: at every level of the recursion of build_result, the range taken
\* as the next outer wrapper (the first of the current list) is not strictly
\* contained in another range of that list: in the sorted list, and in the
\* inner and remaining lists made when straddling ranges were split.
C25_FirstNotContained ==
    fmt_pc[1] = "done" =>
        \A rs \in Heads : \A k \in 2..Len(rs) : ~StrictlyContained(rs[1], rs[k])

RECURSIVE NoTextNeighbours(_)
\* no two neighbours in the content list are strings, nor in the spans of it
NoTextNeighbours(content) ==
    /\ \A k \in 1..(Len(content) - 1) :
          ~(content[k][1] = "str" /\ content[k + 1][1] = "str")
    /\ \A k \in 1..Len(content) :
          content[k][1] = "span" => NoTextNeighbours(content[k][3])

\* C26: in the content the range nesting produces, at the top level of the
\* paragraph and inside every span, no two adjacent siblings are both
\* literal text.
C26_TextMerged ==
    fmt_pc[1] = "done" => NoTextNeighbours(fmt_result)

----------------------------------------------------------------------------
(* Properties of the frames of the list inference *)

\* The frames of current: the first is the body and no other is, the
\* thresholds do not decrease from the body to the innermost list, and the
\* last child of every open <ol> or <ul> is an <li>.
FramesInv ==
    lst_outcome \in {"running", "returned"} =>
        /\ Len(current) >= 1
        /\ current[1].content = ResultAddr
        /\ \A k \in 2..Len(current) :
              /\ current[k].content # ResultAddr
              /\ current[k - 1].left_margin <= current[k].left_margin
              /\ LastIsLi(lst_result, SubSeq(current, 1, k))

\* In the turn of the loop for the item just taken the assertion of
\* close_list holds (a frame is left) and, where append_non_list_item is
\* called on a list, its assertion holds (the last child is an <li>).
AppendAsserts ==
    body' # body =>
        LET closed == IF NewItem.name # "figure"
                      THEN CloseLists(current, EffectiveMargin(NewItem))
                      ELSE current
        IN  /\ Len(closed) >= 1
            /\ (Len(closed) > 1
                    /\ (~is_list_item(NewItem) \/ OpensList(NewItem, closed)))
                  => LastIsLi(lst_result, closed)

\* C28: in every reachable state of the pass the frame of the body is never
\* popped, the thresholds of the open frames are non-decreasing from the
\* root to the current frame, and every open container other than the root
\* has a list item as its last child whenever content is attached to it;
\* hence the assertions of append_non_list_item and close_list never fail.
C28_FramesWellFormed == []FramesInv /\ [][AppendAsserts]_vars

\* a numbered list is open inside a bullet list of the same indentation,
\* and a paragraph that is no list item was attached to its last item
C28_Witness ==
    /\ lst_outcome = "running"
    /\ Len(current) = 3
    /\ current[2].left_margin = current[3].left_margin
    /\ ~is_list_item(body[Len(body)])
    /\ LET li == lst_result[Last(lst_result, current[3].content).content]
       IN  Len(li) > 0 /\ li[Len(li)].n = Len(body)

\* C29: list inference never aborts: for every sequence of items with
\* arbitrary instances, levels and indentations the assertions made while
\* containers are opened and filled hold.
C29_NeverAborts == lst_outcome # "AssertionError"

RECURSIVE Visit(_, _, _)
\* the children of the body met in a depth-first traversal of the list at
\* addr from its k-th element on: for each its name and its number
Visit(h, addr, k) ==
    IF k > Len(h[addr]) THEN << >>
    ELSE LET e == h[addr][k]
         IN  (IF e.n = 0 THEN << >> ELSE <<<<e.name, e.n>>>>)
                 \o (IF e.content = NoAddr THEN << >> ELSE Visit(h, e.content, 1))
                 \o Visit(h, addr, k + 1)

====
